---------------------------- MODULE Spec2Model ----------------------------
(***************************************************************************)
(* Profile orchestrator and page-interaction pipeline of RailsRPA.         *)
(*                                                                         *)
(* AutomationManager runs a roster of browser profiles either one after    *)
(* the other (max_workers <= 1) or on a ThreadPoolExecutor.  For every     *)
(* profile it starts the remote AdsPower profile, attaches a browser,      *)
(* drives the four DiscordAutomation stages, closes the browser, stops the *)
(* remote profile and hands the result dictionary to _handle_result.       *)
(*                                                                         *)
(* Python strings that the code inspects are sequences of one-character    *)
(* strings, so that lower(), slicing and the `in` test are computed.       *)
(***************************************************************************)
EXTENDS Integers, Sequences, FiniteSets, TLC

\* Number of profiles on the roster.
NumProfiles == 2

\* Largest value of the max_workers setting that is explored.
MaxWorkers == 2

(***************************************************************************)
(* String literals of the source.                                          *)
(***************************************************************************)
KwAccess ==
  <<"a","c","c","e","s","s">>

KwUnavailable ==
  <<"u","n","a","v","a","i","l","a","b","l","e">>

TxtImageNotFoundPrefix ==
  <<"I","m","a","g","e"," ","n","o","t"," ","f","o","u","n","d",":"," ">>

TxtImageName ==
  <<"a",".","p","n","g">>

TxtCouldNotStart ==
  <<"C","o","u","l","d"," ","n","o","t"," ","s","t","a","r","t"," ","A","d","s","P","o","w","e","r"," ","p","r","o","f","i","l","e">>

TxtNoContexts ==
  <<"N","o"," ","b","r","o","w","s","e","r"," ","c","o","n","t","e","x","t","s"," ","f","o","u","n","d">>

TxtAutomationErrorPrefix ==
  <<"A","u","t","o","m","a","t","i","o","n"," ","e","r","r","o","r",":"," ">>

TxtUnexpectedErrorPrefix ==
  <<"U","n","e","x","p","e","c","t","e","d"," ","e","r","r","o","r",":"," ">>

TxtImageSent ==
  <<"I","m","a","g","e"," ","s","e","n","t"," ","s","u","c","c","e","s","s","f","u","l","l","y">>

TxtAuthenticated ==
  <<"A","c","c","o","u","n","t"," ","i","s"," ","a","u","t","h","e","n","t","i","c","a","t","e","d">>

TxtLoginRequired ==
  <<"A","c","c","o","u","n","t"," ","i","s"," ","n","o","t"," ","a","u","t","h","e","n","t","i","c","a","t","e","d"," ","-"," ","l","o","g","i","n"," ","r","e","q","u","i","r","e","d">>

TxtLoginFormDetected ==
  <<"A","c","c","o","u","n","t"," ","i","s"," ","n","o","t"," ","a","u","t","h","e","n","t","i","c","a","t","e","d"," ","-"," ","l","o","g","i","n"," ","f","o","r","m"," ","d","e","t","e","c","t","e","d">>

TxtPageLoadTimeout ==
  <<"P","a","g","e"," ","l","o","a","d"," ","t","i","m","e","o","u","t"," ","-"," ","c","h","e","c","k"," ","y","o","u","r"," ","i","n","t","e","r","n","e","t"," ","c","o","n","n","e","c","t","i","o","n">>

TxtPageLoadErrorPrefix ==
  <<"P","a","g","e"," ","l","o","a","d"," ","e","r","r","o","r",":"," ">>

TxtUrlHome ==
  <<"h","t","t","p","s",":","/","/","d","i","s","c","o","r","d",".","c","o","m","/","c","h","a","n","n","e","l","s","/","@","m","e">>

TxtUrlLogin ==
  <<"h","t","t","p","s",":","/","/","d","i","s","c","o","r","d",".","c","o","m","/","l","o","g","i","n">>

TxtUrlRegister ==
  <<"h","t","t","p","s",":","/","/","d","i","s","c","o","r","d",".","c","o","m","/","r","e","g","i","s","t","e","r">>

KwLoginPath ==
  <<"/","l","o","g","i","n">>

KwRegisterPath ==
  <<"/","r","e","g","i","s","t","e","r">>

TxtAuthUnconfirmed ==
  <<"C","o","u","l","d"," ","n","o","t"," ","c","o","n","f","i","r","m"," ","a","u","t","h","e","n","t","i","c","a","t","i","o","n"," ","s","t","a","t","u","s">>

TxtVerifySkippedNoExpected ==
  <<"U","s","e","r","n","a","m","e"," ","v","e","r","i","f","i","c","a","t","i","o","n"," ","s","k","i","p","p","e","d"," ","(","n","o"," ","e","x","p","e","c","t","e","d"," ","u","s","e","r","n","a","m","e",")">>

TxtVerifySkippedUndetected ==
  <<"U","s","e","r","n","a","m","e"," ","v","e","r","i","f","i","c","a","t","i","o","n"," ","s","k","i","p","p","e","d"," ","(","c","o","u","l","d"," ","n","o","t"," ","d","e","t","e","c","t"," ","u","s","e","r","n","a","m","e",")">>

TxtVerifiedPrefix ==
  <<"U","s","e","r","n","a","m","e"," ","v","e","r","i","f","i","e","d",":"," ">>

TxtMismatchPrefix ==
  <<"U","s","e","r","n","a","m","e"," ","m","i","s","m","a","t","c","h",":"," ","e","x","p","e","c","t","e","d"," ","'">>

TxtMismatchMiddle ==
  <<"'",","," ","g","o","t"," ","'">>

TxtMismatchSuffix ==
  <<"'">>

TxtChannelUnavailablePrefix ==
  <<"C","h","a","n","n","e","l"," ","u","n","a","v","a","i","l","a","b","l","e",":"," ">>

TxtNotAccessibleOnProfile ==
  <<"C","h","a","n","n","e","l"," ","i","s"," ","n","o","t"," ","a","c","c","e","s","s","i","b","l","e"," ","o","n"," ","t","h","i","s"," ","p","r","o","f","i","l","e">>

TxtRedirectedToDMs ==
  <<"C","h","a","n","n","e","l"," ","n","o","t"," ","a","c","c","e","s","s","i","b","l","e"," ","-"," ","r","e","d","i","r","e","c","t","e","d"," ","t","o"," ","D","M","s">>

TxtChannelAccessible ==
  <<"C","h","a","n","n","e","l"," ","i","s"," ","a","c","c","e","s","s","i","b","l","e">>

TxtElementsNotFound ==
  <<"C","h","a","n","n","e","l"," ","d","i","d"," ","n","o","t"," ","l","o","a","d"," ","-"," ","e","l","e","m","e","n","t","s"," ","n","o","t"," ","f","o","u","n","d">>

TxtNavigationTimeout ==
  <<"N","a","v","i","g","a","t","i","o","n"," ","t","i","m","e","o","u","t"," ","-"," ","c","h","a","n","n","e","l"," ","t","o","o","k"," ","t","o","o"," ","l","o","n","g"," ","t","o"," ","l","o","a","d">>

TxtNavigationErrorPrefix ==
  <<"N","a","v","i","g","a","t","i","o","n"," ","e","r","r","o","r",":"," ">>

TxtChannelLoaded ==
  <<"C","h","a","n","n","e","l"," ","l","o","a","d","e","d"," ","s","u","c","c","e","s","s","f","u","l","l","y">>

TxtChannelLoadedLimited ==
  <<"C","h","a","n","n","e","l"," ","l","o","a","d","e","d"," ","(","l","i","m","i","t","e","d"," ","f","u","n","c","t","i","o","n","a","l","i","t","y",")">>

TxtUploadInputNotFound ==
  <<"F","i","l","e"," ","u","p","l","o","a","d"," ","i","n","p","u","t"," ","n","o","t"," ","f","o","u","n","d">>

TxtFailedToUploadPrefix ==
  <<"F","a","i","l","e","d"," ","t","o"," ","u","p","l","o","a","d"," ","f","i","l","e",":"," ">>

TxtUploadVerified ==
  <<"I","m","a","g","e"," ","s","e","n","t"," ","a","n","d"," ","v","e","r","i","f","i","e","d"," ","s","u","c","c","e","s","s","f","u","l","l","y">>

TxtUploadNoErrors ==
  <<"I","m","a","g","e"," ","s","e","n","t"," ","(","n","o"," ","e","r","r","o","r","s"," ","d","e","t","e","c","t","e","d",")">>

TxtSendError ==
  <<"M","e","s","s","a","g","e"," ","d","e","l","i","v","e","r","y"," ","f","a","i","l","e","d">>

TxtUploadErrorPrefix ==
  <<"U","p","l","o","a","d"," ","e","r","r","o","r",":"," ">>

TxtErrConnectionReset ==
  <<"n","e","t",":",":","E","R","R","_","C","O","N","N","E","C","T","I","O","N","_","R","E","S","E","T">>

TxtErrNetworkAccessDenied ==
  <<"n","e","t",":",":","E","R","R","_","N","E","T","W","O","R","K","_","A","C","C","E","S","S","_","D","E","N","I","E","D">>

TxtPageNotFound ==
  <<"N","O","T"," ","F","O","U","N","D">>

TxtAlice ==
  <<"a","l","i","c","e">>

TxtAliceDev ==
  <<"a","l","i","c","e","_","d","e","v","#","0","0","0","1">>

TxtAliceDevOnline ==
  <<"a","l","i","c","e","_","d","e","v","#","0","0","0","1"," ","|"," ","O","n","l","i","n","e">>

TxtUsernameNotFound ==
  <<"U","s","e","r","n","a","m","e"," ","n","o","t"," ","f","o","u","n","d">>

TxtVerifyErrorPrefix ==
  <<"U","s","e","r","n","a","m","e"," ","v","e","r","i","f","i","c","a","t","i","o","n"," ","e","r","r","o","r",":"," ">>

TxtNoStrip ==
  <<"'","i","n","t","'"," ","o","b","j","e","c","t"," ","h","a","s"," ","n","o"," ","a","t","t","r","i","b","u","t","e"," ","'","s","t","r","i","p","'">>

TxtBob ==
  <<"B","o","b">>

LowerChar(c) ==
  CASE c = "A" -> "a"
    [] c = "B" -> "b"
    [] c = "C" -> "c"
    [] c = "D" -> "d"
    [] c = "E" -> "e"
    [] c = "F" -> "f"
    [] c = "G" -> "g"
    [] c = "H" -> "h"
    [] c = "I" -> "i"
    [] c = "J" -> "j"
    [] c = "K" -> "k"
    [] c = "L" -> "l"
    [] c = "M" -> "m"
    [] c = "N" -> "n"
    [] c = "O" -> "o"
    [] c = "P" -> "p"
    [] c = "Q" -> "q"
    [] c = "R" -> "r"
    [] c = "S" -> "s"
    [] c = "T" -> "t"
    [] c = "U" -> "u"
    [] c = "V" -> "v"
    [] c = "W" -> "w"
    [] c = "X" -> "x"
    [] c = "Y" -> "y"
    [] c = "Z" -> "z"
    [] OTHER -> c

(***************************************************************************)
(* Python string operations.                                               *)
(***************************************************************************)
\* str.lower()
Lower(s) ==
  [k \in 1..Len(s) |-> LowerChar(s[k])]

\* `sub in s`
Contains(s, sub) ==
  \E k \in 0..(Len(s) - Len(sub)) : SubSeq(s, k + 1, k + Len(sub)) = sub

\* s[:n]
Take(s, n) ==
  SubSeq(s, 1, IF Len(s) < n THEN Len(s) ELSE n)

RECURSIVE LStrip(_)
\* str.lstrip() for blanks
LStrip(s) ==
  IF s # <<>> /\ Head(s) = " " THEN LStrip(Tail(s)) ELSE s

RECURSIVE RStrip(_)
\* str.rstrip() for blanks
RStrip(s) ==
  IF s # <<>> /\ s[Len(s)] = " " THEN RStrip(SubSeq(s, 1, Len(s) - 1)) ELSE s

\* str.strip()
Strip(s) ==
  RStrip(LStrip(s))

RECURSIVE BeforeHash(_)
\* s.split('#')[0]
BeforeHash(s) ==
  IF s = <<>> \/ Head(s) = "#" THEN <<>> ELSE <<Head(s)>> \o BeforeHash(Tail(s))

(***************************************************************************)
(* Page interaction driver (DiscordAutomation).  Each stage is a function  *)
(* of what the page shows; it returns the tuple the Python method returns. *)
(***************************************************************************)
\* str(e) of the exceptions a page operation raises
ErrTexts ==
  {TxtErrConnectionReset, TxtErrNetworkAccessDenied}

\* What check_authentication can observe: how page.goto() ends, the URL the
\* page is at afterwards, and whether a login-form selector and an
\* authenticated-shell selector are found.
AuthInputs ==
  [goto : {"ok", "timeout", "playwright_error", "error"},
   url : {TxtUrlHome, TxtUrlLogin, TxtUrlRegister},
   login_form : BOOLEAN, shell : BOOLEAN]

\* A check that looks for the authenticated shell before the login form.
CheckAuthenticationShellFirst(in) ==
  CASE in.goto = "timeout" -> <<FALSE, TxtPageLoadTimeout>>
    [] in.goto = "playwright_error" ->
         <<FALSE, TxtPageLoadErrorPrefix \o TxtErrConnectionReset>>
    [] in.goto = "error" ->
         <<FALSE, TxtUnexpectedErrorPrefix \o TxtErrConnectionReset>>
    [] OTHER ->
         IF Contains(in.url, KwLoginPath) \/ Contains(in.url, KwRegisterPath)
           THEN <<FALSE, TxtLoginRequired>>
           ELSE IF in.shell
                  THEN <<TRUE, TxtAuthenticated>>
                  ELSE IF in.login_form
                         THEN <<FALSE, TxtLoginFormDetected>>
                         ELSE <<FALSE, TxtAuthUnconfirmed>>

\* check_authentication() -> (is_authenticated, message)
CheckAuthentication(in) ==
  CASE in.goto = "timeout" -> <<FALSE, TxtPageLoadTimeout>>
    [] in.goto = "playwright_error" ->
         <<FALSE, TxtPageLoadErrorPrefix \o TxtErrConnectionReset>>
    [] in.goto = "error" ->
         <<FALSE, TxtUnexpectedErrorPrefix \o TxtErrConnectionReset>>
    [] OTHER ->
         IF Contains(in.url, KwLoginPath) \/ Contains(in.url, KwRegisterPath)
           THEN <<FALSE, TxtLoginRequired>>
           ELSE IF in.login_form
                  THEN <<FALSE, TxtLoginFormDetected>>
                  ELSE IF in.shell
                         THEN <<TRUE, TxtAuthenticated>>
                         ELSE <<FALSE, TxtAuthUnconfirmed>>

\* Text of the user panel as the page shows it; <<>> when no selector matches.
DetectedTexts ==
  {<<>>, TxtAliceDev, TxtBob}

\* What get_discord_username can read: the text of the first username
\* selector that has one, and the text of the user area (one line).
DetectedPages ==
  {[panel |-> t, area |-> <<>>] : t \in DetectedTexts} \cup
  {[panel |-> <<>>, area |-> t] : t \in {TxtAliceDevOnline, TxtBob, <<"x">>}}

\* if len(potential_username) >= 2 and len(potential_username) <= 32
MinUsernameLen == 2

MaxUsernameLen == 32

\* get_discord_username() -> (success, username_or_error): the username
\* selectors first, then the first line of the user area.
GetDiscordUsername(page) ==
  IF Strip(page.panel) # <<>>
    THEN <<TRUE, BeforeHash(Strip(page.panel))>>
    ELSE IF /\ Strip(page.area) # <<>>
            /\ Len(Strip(page.area)) >= MinUsernameLen
            /\ Len(Strip(page.area)) <= MaxUsernameLen
           THEN <<TRUE, Strip(page.area)>>
           ELSE <<FALSE, TxtUsernameNotFound>>

\* A comparison that accepts the expected username inside the actual one only.
IsMatchNonEmpty(expected_clean, actual_clean) ==
  /\ expected_clean # <<>>
  /\ actual_clean # <<>>
  /\ \/ Contains(actual_clean, expected_clean)
     \/ Contains(expected_clean, actual_clean)

IsMatchOneWay(expected_clean, actual_clean) ==
  \/ expected_clean = actual_clean
  \/ Contains(actual_clean, expected_clean)

\* verify_username: is_match of the two normalized usernames.
IsMatch(expected_clean, actual_clean) ==
  \/ expected_clean = actual_clean
  \/ Contains(actual_clean, expected_clean)
  \/ Contains(expected_clean, actual_clean)

\* verify_username: x.lower().strip(), then x.split('#')[0]
CleanUsername(username) ==
  BeforeHash(Strip(Lower(username)))

\* A verification that reports the mismatch when no username is detected.
VerifyAgainstStrict(expected_username, got) ==
  IF Strip(expected_username) = <<>>
    THEN <<TRUE, <<>>, TxtVerifySkippedNoExpected>>
    ELSE IF got[1] /\ IsMatch(CleanUsername(expected_username), CleanUsername(got[2]))
           THEN <<TRUE, got[2], TxtVerifiedPrefix \o expected_username>>
           ELSE <<FALSE, <<>>,
                  TxtMismatchPrefix \o expected_username \o TxtMismatchMiddle
                    \o TxtMismatchSuffix>>

\* verify_username(expected_username) -> (match, actual_username, message),
\* given what get_discord_username returned.
VerifyAgainst(expected_username, got) ==
  IF Strip(expected_username) = <<>>
    THEN <<TRUE, <<>>, TxtVerifySkippedNoExpected>>
    ELSE IF ~got[1]
      THEN <<TRUE, <<>>, TxtVerifySkippedUndetected>>
      ELSE IF IsMatch(CleanUsername(expected_username), CleanUsername(got[2]))
        THEN <<TRUE, got[2], TxtVerifiedPrefix \o expected_username>>
        ELSE <<FALSE, got[2],
               TxtMismatchPrefix \o expected_username \o TxtMismatchMiddle
                 \o got[2] \o TxtMismatchSuffix>>

\* verify_username(expected_username) on a page.
VerifyUsername(expected_username, page) ==
  VerifyAgainst(expected_username, GetDiscordUsername(page))

\* The except clause of verify_username, entered when expected_username is
\* not a string (a number in config.yaml) and .strip() raises.
VerifyExcept(e) ==
  <<TRUE, <<>>, TxtVerifyErrorPrefix \o e>>

\* What _check_channel_access can find on the channel page.
AccessSignals ==
  {"none", "error_text", "error_no_text", "redirect_home"}

\* _check_channel_access() -> (is_accessible, error_message)
CheckChannelAccess(sig) ==
  CASE sig = "error_text"    ->
         <<FALSE, TxtChannelUnavailablePrefix \o Take(TxtPageNotFound, 100)>>
    [] sig = "error_no_text" -> <<FALSE, TxtNotAccessibleOnProfile>>
    [] sig = "redirect_home" -> <<FALSE, TxtRedirectedToDMs>>
    [] sig = "none"          -> <<TRUE, TxtChannelAccessible>>

\* What _check_channel_access can meet on the page.
\*   denial  : the denial signal shown when the check starts
\*   modal   : a restricted-channel / age-restriction modal is visible
\*   confirm : the "I understand" / "Continue" button is visible, is not,
\*             or its click raises
\*   behind  : the denial signal the page shows once the modal is gone
AccessInputs ==
  [denial : AccessSignals, modal : BOOLEAN,
   confirm : {"visible", "absent", "click_raises"}, behind : AccessSignals]

\* _check_channel_access() step by step: the scan of the error selectors,
\* the look at the URL, the scan of the restricted-channel selectors with
\* the click on the confirm button, and the return.
CheckChannelAccessSteps(in) ==
  CASE in.denial \in {"error_text", "error_no_text"} ->
         [log |-> <<"denial_scan">>, returned |-> CheckChannelAccess(in.denial)]
    [] in.denial = "redirect_home" ->
         [log |-> <<"denial_scan", "url_check">>,
          returned |-> CheckChannelAccess(in.denial)]
    [] OTHER ->
         [log |-> <<"denial_scan", "url_check", "modal_scan">>
                    \o (IF ~in.modal THEN <<>>
                        ELSE IF in.confirm = "visible"
                               THEN <<"dismiss", "modal_scan">>
                               ELSE <<"modal_scan">>),
          returned |-> CheckChannelAccess("none")]

\* How page.goto() and the steps before the access check end.
GotoInputs ==
  {"ok", "timeout", "playwright_error", "error"}

\* The except clauses of navigate_to_channel.
NavigateExcept(in, e) ==
  CASE in = "timeout"          -> <<FALSE, TxtNavigationTimeout>>
    [] in = "playwright_error" -> <<FALSE, TxtNavigationErrorPrefix \o e>>
    [] in = "error"            -> <<FALSE, TxtUnexpectedErrorPrefix \o e>>

\* How waiting for and focusing the message input ends.
FocusInputs ==
  {"ok", "timeout", "error"}

NavigateFocusStrict(in) ==
  CASE in = "ok"      -> <<TRUE, TxtChannelLoaded>>
    [] in = "timeout" -> <<FALSE, TxtElementsNotFound>>
    [] in = "error"   -> <<FALSE, TxtElementsNotFound>>

\* The end of navigate_to_channel once a chat marker was found.
NavigateFocus(in) ==
  CASE in = "ok"      -> <<TRUE, TxtChannelLoaded>>
    [] in = "timeout" -> <<TRUE, TxtChannelLoadedLimited>>
    [] in = "error"   -> <<TRUE, TxtChannelLoaded>>

\* upload_and_send_image: self._retry_action(upload_file, max_retries=3, ...)
MaxRetries == 3

\* Send-button selectors tried in order (the code lists six).
NumSendSelectors == 2

\* What upload_and_send_image can observe on the page.
\*   emulation  : whether the page operations inside the emulation
\*                primitives (mouse.move, evaluate, viewport_size) work
\*   file_input : a file input selector is found
\*   set_file   : whether the k-th call of set_input_files returns
\*   buttons    : the element behind each send selector: none, one that
\*                does not get visible, a disabled one, a visible enabled one
\*   click      : element.click() works, raises once, or always raises
\*   enter      : keyboard.press("Enter") works or raises
\*   verified   : the poll round that finds the message
\*   error      : _check_send_errors finds an error signal
UploadInputs ==
  [emulation : {"ok", "fails"}, file_input : BOOLEAN,
   set_file : [1..MaxRetries -> BOOLEAN],
   buttons : [1..NumSendSelectors -> {"absent", "hidden", "disabled", "ready"}],
   click : {"ok", "fails_once", "fails"}, enter : {"ok", "fails"},
   verified : {"first", "second", "never"}, error : BOOLEAN]

\* StealthManager.random_mouse_movement, random_scroll, human_like_typing,
\* apply_stealth_scripts: the body runs in try/except Exception.
SwallowingPrimitive(emulation) ==
  "returned"

\* StealthManager.simulate_human_behavior_before_action: mouse movement,
\* scroll and delays, none of them in a try of its own.
SimulateHumanBehaviorBeforeAction(emulation) ==
  IF SwallowingPrimitive(emulation) = "raised" THEN "raised" ELSE "returned"

\* StealthManager.human_like_click(element): pointer movement and click in
\* a try; on any exception the plain element.click() again, re-raised when
\* that fails too.
HumanLikeClick(emulation, click) ==
  LET moved == emulation = "ok"
      first_click == moved /\ click = "ok"
      fallback_click == \/ click = "ok"
                        \/ click = "fails_once" /\ moved
  IN  IF first_click \/ fallback_click THEN "clicked" ELSE "raised"

\* A retry loop that sleeps after every failed attempt.
RetryActionSleepAlways(outcomes, attempt, max_retries) ==
  LET RECURSIVE Loop(_)
      Loop(a) ==
        IF a >= max_retries
          THEN [log |-> <<>>, raised |-> TRUE]
          ELSE IF outcomes[a + 1]
            THEN [log |-> <<"set_file">>, raised |-> FALSE]
            ELSE LET rest == Loop(a + 1)
                 IN  [log |-> <<"set_file_raises", "sleep">> \o rest.log,
                      raised |-> rest.raised]
  IN  Loop(attempt)

\* _retry_action(upload_file, max_retries, delay) from `attempt` on:
\* the calls made, and whether the last exception is raised.
RetryAction(outcomes, attempt, max_retries) ==
  LET RECURSIVE Loop(_)
      Loop(a) ==
        IF a >= max_retries
          THEN [log |-> <<>>, raised |-> TRUE]
          ELSE IF outcomes[a + 1]
            THEN [log |-> <<"set_file">>, raised |-> FALSE]
            ELSE LET rest == Loop(a + 1)
                 IN  [log |-> <<"set_file_raises">>
                                \o (IF a < max_retries - 1
                                      THEN <<"sleep">> ELSE <<>>)
                                \o rest.log,
                      raised |-> rest.raised]
  IN  Loop(attempt)

\* A send-button loop that clicks a disabled button as well.
ClickSendDisabled(in) ==
  LET RECURSIVE Loop(_)
      Loop(k) ==
        IF k > NumSendSelectors
          THEN IF in.enter = "ok"
                 THEN [log |-> <<"enter">>, raised |-> FALSE]
                 ELSE [log |-> <<"enter_raises", "enter_raises">>,
                       raised |-> TRUE]
          ELSE IF in.buttons[k] \notin {"ready", "disabled"}
            THEN LET rest == Loop(k + 1)
                 IN  [log |-> <<"skip">> \o rest.log, raised |-> rest.raised]
            ELSE IF HumanLikeClick(in.emulation, in.click) = "clicked"
              THEN [log |-> <<"click">>, raised |-> FALSE]
              ELSE LET rest == Loop(k + 1)
                   IN  [log |-> <<"click_raises">> \o rest.log,
                        raised |-> rest.raised]
  IN  Loop(1)

\* Step 4 of upload_and_send_image: the send-button loop over the selectors
\* in their order ("skip": no element, not visible in time, or disabled),
\* then the Enter key when no button was clicked.
ClickSend(in) ==
  LET RECURSIVE Loop(_)
      Loop(k) ==
        IF k > NumSendSelectors
          THEN IF in.enter = "ok"
                 THEN [log |-> <<"enter">>, raised |-> FALSE]
                 ELSE [log |-> <<"enter_raises", "enter_raises">>,
                       raised |-> TRUE]
          ELSE IF in.buttons[k] # "ready"
            THEN LET rest == Loop(k + 1)
                 IN  [log |-> <<"skip">> \o rest.log, raised |-> rest.raised]
            ELSE IF HumanLikeClick(in.emulation, in.click) = "clicked"
              THEN [log |-> <<"click">>, raised |-> FALSE]
              ELSE LET rest == Loop(k + 1)
                   IN  [log |-> <<"click_raises">> \o rest.log,
                        raised |-> rest.raised]
  IN  Loop(1)

\* A step 5 that scans for error signals before it looks for the message.
\* The longest chat list the model gives to the message search.
MaxMessages == 6

\* check_count = min(5, count): the number of newest messages searched.
LastMessages == 5

\* What one message of the chat list shows: whose it is (no author element,
\* the current user, somebody else) and whether it carries an image.
MessageKinds ==
  {[author |-> "none", image |-> TRUE], [author |-> "me", image |-> TRUE],
   [author |-> "other", image |-> TRUE], [author |-> "me", image |-> FALSE]}

\* A chat list (messages[i + 1] is Python's messages.nth(i)) and whether
\* _verify_message_sent has a username to look for.
MessageInputs ==
  [messages : UNION {[1..n -> MessageKinds] : n \in 0..MaxMessages},
   username : BOOLEAN]

CheckedIndicesAll(count) == [k \in 1..count |-> count - k]

\* range(count - 1, count - check_count - 1, -1), as Python indices.
CheckedIndices(count) ==
  LET check_count == IF LastMessages < count THEN LastMessages ELSE count
  IN  [k \in 1..check_count |-> count - k]

\* The body of the loop for messages.nth(i): a message without an author is
\* passed over; one with an image ends the search if no username is given
\* or the author matches.
MessageMatches(msg, username) ==
  /\ msg.author # "none"
  /\ msg.image
  /\ ~username \/ msg.author = "me"

\* _find_user_message_with_image(chat_container, username): the indices
\* of the messages it looks at, in order, and what it returns.
FindUserMessageWithImage(in) ==
  LET count == Len(in.messages)
      idxs  == CheckedIndices(count)
      hits  == {k \in 1..Len(idxs) :
                  MessageMatches(in.messages[idxs[k] + 1], in.username)}
      first == CHOOSE k \in hits : \A j \in hits : k <= j
  IN  IF hits = {} THEN [log |-> idxs, returned |-> FALSE]
                   ELSE [log |-> Take(idxs, first), returned |-> TRUE]

VerifySentScanFirst(in) ==
  IF in.error
    THEN [log |-> <<"scan">>, returned |-> <<FALSE, TxtSendError>>]
    ELSE CASE in.verified = "first" ->
                [log |-> <<"scan", "poll">>,
                 returned |-> <<TRUE, TxtUploadVerified>>]
           [] in.verified = "second" ->
                [log |-> <<"scan", "poll", "poll">>,
                 returned |-> <<TRUE, TxtUploadVerified>>]
           [] OTHER ->
                [log |-> <<"scan", "poll", "poll">>,
                 returned |-> <<TRUE, TxtUploadNoErrors>>]

\* Step 5 of upload_and_send_image: two poll rounds, then the error scan.
VerifySent(in) ==
  CASE in.verified = "first" ->
         [log |-> <<"poll">>, returned |-> <<TRUE, TxtUploadVerified>>]
    [] in.verified = "second" ->
         [log |-> <<"poll", "poll">>, returned |-> <<TRUE, TxtUploadVerified>>]
    [] OTHER ->
         [log |-> <<"poll", "poll", "scan">>,
          returned |-> IF in.error THEN <<FALSE, TxtSendError>>
                                   ELSE <<TRUE, TxtUploadNoErrors>>]

\* upload_and_send_image(image_path): the page actions it makes, in order,
\* and the tuple it returns.
UploadAndSendImage(in) ==
  IF SimulateHumanBehaviorBeforeAction(in.emulation) = "raised"
    THEN [log |-> <<>>,
          returned |-> <<FALSE, TxtUnexpectedErrorPrefix \o TxtErrConnectionReset>>]
    ELSE IF ~in.file_input
      THEN [log |-> <<"find_input">>,
            returned |-> <<FALSE, TxtUploadInputNotFound>>]
      ELSE
        LET set == RetryAction(in.set_file, 0, MaxRetries)
            send == ClickSend(in)
            sent == VerifySent(in)
        IN  IF set.raised
              THEN [log |-> <<"find_input">> \o set.log,
                    returned |-> <<FALSE, TxtFailedToUploadPrefix
                                            \o TxtErrConnectionReset>>]
              ELSE IF send.raised
                THEN [log |-> <<"find_input">> \o set.log \o send.log,
                      returned |-> <<FALSE, TxtUploadErrorPrefix
                                              \o TxtErrConnectionReset>>]
                ELSE [log |-> <<"find_input">> \o set.log \o send.log
                                \o sent.log,
                      returned |-> sent.returned]

\* The tuples upload_and_send_image returns.
UploadReturns ==
  {<<TRUE, TxtUploadVerified>>, <<TRUE, TxtUploadNoErrors>>,
   <<FALSE, TxtSendError>>, <<FALSE, TxtUploadInputNotFound>>,
   <<FALSE, TxtFailedToUploadPrefix \o TxtErrConnectionReset>>,
   <<FALSE, TxtUploadErrorPrefix \o TxtErrConnectionReset>>}

\* The returns open to upload_and_send_image after `failed` attempts of
\* upload_file raised: the input is looked for before the first attempt,
\* _retry_action raises the last exception once every attempt failed, and
\* the rest of the stage runs only after an attempt that did not raise.
UploadReturnsAfter(failed) ==
  {r \in UploadReturns :
     /\ r[2] = TxtUploadInputNotFound => failed = 0
     /\ r[2] = TxtFailedToUploadPrefix \o TxtErrConnectionReset <=>
          failed = MaxRetries}

(***************************************************************************)
(* Remote profile controller (AdsPowerAPI).                                *)
(***************************************************************************)
TxtWsScheme ==
  <<"w","s",":","/","/">>

TxtWssScheme ==
  <<"w","s","s",":","/","/">>

TxtHttpScheme ==
  <<"h","t","t","p",":","/","/">>

TxtHttpsScheme ==
  <<"h","t","t","p","s",":","/","/">>

\* Endpoint texts a start response may carry under a key of its ws map.
TxtEndpointWs ==
  <<"w","s",":","/","/","h","/","b">>

TxtEndpointHostPort ==
  <<"h",":","9","0">>

TxtEndpointHost ==
  <<"h">>

TxtEndpointHostName ==
  <<"h",":","x">>

\* The webSocketDebuggerUrl of a /json/version answer.
TxtDebuggerUrl ==
  <<"w","s",":","/","/","h",":","9","0","/","d">>

\* A debug_port of a start response.
TxtDebugPort ==
  <<"7","7">>

DigitChars ==
  <<"0","1","2","3","4","5","6","7","8","9">>

\* port = debug_port or 9222
DefaultCdpPort == 9222

\* str.startswith(prefix)
StartsWith(s, prefix) ==
  Take(s, Len(prefix)) = prefix

\* int(text) does not raise ValueError: a decimal numeral.
IsInt(text) ==
  /\ text # <<>>
  /\ \A k \in 1..Len(text) : \E d \in 1..Len(DigitChars) : DigitChars[d] = text[k]

RECURSIVE ParseInt(_)
\* int(text) of a decimal numeral
ParseInt(text) ==
  IF text = <<>>
    THEN 0
    ELSE LET d == CHOOSE k \in 1..Len(DigitChars) : DigitChars[k] = text[Len(text)]
         IN  ParseInt(SubSeq(text, 1, Len(text) - 1)) * 10 + (d - 1)

RECURSIVE Str(_)
\* str(n) of a natural number, as an f-string formats it
Str(n) ==
  IF n < 10
    THEN <<DigitChars[n + 1]>>
    ELSE Str(n \div 10) \o <<DigitChars[(n % 10) + 1]>>

\* ':' in endpoint
HasColon(endpoint) ==
  \E k \in 1..Len(endpoint) : endpoint[k] = ":"

\* Index of the colon endpoint.rsplit(':', 1) splits at.
LastColon(endpoint) ==
  CHOOSE k \in 1..Len(endpoint) :
    /\ endpoint[k] = ":"
    /\ \A j \in (k + 1)..Len(endpoint) : endpoint[j] # ":"

\* endpoint.startswith(('ws://', 'wss://', 'http://', 'https://'))
HasScheme(endpoint) ==
  \/ StartsWith(endpoint, TxtWsScheme)
  \/ StartsWith(endpoint, TxtWssScheme)
  \/ StartsWith(endpoint, TxtHttpScheme)
  \/ StartsWith(endpoint, TxtHttpsScheme)

\* Answers of the GET {cdp_url}/json/version probe: the request raises, the
\* status is not 200, or the JSON body has url as its webSocketDebuggerUrl
\* (<<>> when the field is missing or empty).
ProbeAnswers ==
  { [kind |-> "exception", url |-> <<>>],
    [kind |-> "not_200", url |-> <<>>],
    [kind |-> "ok", url |-> <<>>],
    [kind |-> "ok", url |-> TxtDebuggerUrl] }

\* A formatter without the fallback: when the probe names no WebSocket URL
\* the endpoint is returned as it came.
FormatWithoutFallback(endpoint, debug_port, probe) ==
  IF HasScheme(endpoint)
    THEN endpoint
    ELSE IF probe.kind = "ok" /\ probe.url # <<>>
           THEN probe.url
           ELSE endpoint

\* _format_ws_endpoint(endpoint, debug_port), given the probe's answer.
\* int(port) raising ValueError is caught by the outer except, which
\* returns the endpoint as it came.
FormatWsEndpoint(endpoint, debug_port, probe) ==
  IF endpoint = <<>> \/ HasScheme(endpoint)
    THEN endpoint
    ELSE IF HasColon(endpoint)
              /\ ~IsInt(SubSeq(endpoint, LastColon(endpoint) + 1, Len(endpoint)))
      THEN endpoint
      ELSE LET host == IF HasColon(endpoint)
                         THEN SubSeq(endpoint, 1, LastColon(endpoint) - 1)
                         ELSE endpoint
               port == IF HasColon(endpoint)
                         THEN Str(ParseInt(
                                SubSeq(endpoint, LastColon(endpoint) + 1, Len(endpoint))))
                         ELSE IF debug_port # <<>>
                                THEN debug_port
                                ELSE Str(DefaultCdpPort)
               cdp_url == TxtHttpScheme \o host \o <<":">> \o port
           IN  IF probe.kind = "ok" /\ probe.url # <<>>
                 THEN probe.url
                 ELSE cdp_url

\* The keys of the ws map start_profile looks at.
WsKeys ==
  {"playwright", "selenium", "puppeteer", "webdriver"}

\* dict.get(key): <<>> stands for None and for the empty string.
Get(d, key) ==
  IF key \in DOMAIN d THEN d[key] ELSE <<>>

\* A selection that prefers the puppeteer endpoint to the selenium one.
SelectEndpointPuppeteerFirst(ws_dict) ==
  IF Get(ws_dict, "playwright") # <<>>
    THEN Get(ws_dict, "playwright")
    ELSE IF Get(ws_dict, "puppeteer") # <<>>
           THEN Get(ws_dict, "puppeteer")
           ELSE IF Get(ws_dict, "selenium") # <<>>
                  THEN Get(ws_dict, "selenium")
                  ELSE Get(ws_dict, "webdriver")

\* start_profile: ws_endpoint before formatting; <<>> when the function
\* returns (False, None) for want of an endpoint.
SelectEndpoint(ws_dict) ==
  IF DOMAIN ws_dict # {} /\ Get(ws_dict, "playwright") # <<>>
    THEN Get(ws_dict, "playwright")
    ELSE IF DOMAIN ws_dict = {}
           THEN <<>>
           ELSE IF Get(ws_dict, "selenium") # <<>>
                  THEN Get(ws_dict, "selenium")
                  ELSE IF Get(ws_dict, "puppeteer") # <<>>
                         THEN Get(ws_dict, "puppeteer")
                         ELSE Get(ws_dict, "webdriver")

\* A serial number of a profile; <<>> stands for None, <<n>> for the number n.
SerialNumbers ==
  {<<>>, <<0>>, <<27>>}

\* A profile id; <<>> stands for None and for the empty string.
ProfileIds ==
  {<<>>, <<"p", 1>>}

\* Parameters that prefer the id to the serial number.
GetProfileParamsIdFirst(profile_id, serial_number) ==
  IF profile_id # <<>>
    THEN [k \in {"user_id"} |-> profile_id]
    ELSE IF serial_number # <<>>
           THEN [k \in {"serial_number"} |-> Str(serial_number[1])]
           ELSE [k \in {} |-> <<>>]

\* _get_profile_params(profile_id, serial_number): the request parameters
\* that name the profile.
GetProfileParams(profile_id, serial_number) ==
  IF serial_number # <<>>
    THEN [k \in {"serial_number"} |-> Str(serial_number[1])]
    ELSE IF profile_id # <<>>
           THEN [k \in {"user_id"} |-> profile_id]
           ELSE [k \in {} |-> <<>>]

\* start_profile: `if not profile_id and serial_number is None` does not hold.
Identified(call) ==
  ~(call.profile_id = <<>> /\ call.serial_number = <<>>)

\* params["open_tabs"] = "0"
WithOpenTabs(params) ==
  [k \in DOMAIN params \cup {"open_tabs"} |->
     IF k = "open_tabs" THEN <<"0">> ELSE params[k]]

\* The requests start_profile sends to the provider: none for a call that
\* names no profile, else GET /api/v1/browser/start with these parameters.
StartRequests(call) ==
  IF ~Identified(call)
    THEN <<>>
    ELSE <<[path |-> "start",
            params |-> WithOpenTabs(GetProfileParams(call.profile_id,
                                                     call.serial_number))]>>

\* (False, None)
StartFailed ==
  [success |-> FALSE, ws_endpoint |-> <<>>, selected |-> <<>>]

\* start_profile(profile_id, serial_number) for a call that names a profile
\* or not, the answer of the start request and the answer of the probe.
StartProfileReturn(call) ==
  IF ~Identified(call)
    THEN StartFailed
    ELSE IF call.response.kind # "json"
      THEN StartFailed
      ELSE IF call.response.code # 0 \/ call.response.data.empty
        THEN StartFailed
        ELSE LET ws_endpoint == SelectEndpoint(call.response.data.ws)
             IN  IF ws_endpoint = <<>>
                   THEN StartFailed
                   ELSE [success |-> TRUE,
                         ws_endpoint |->
                           FormatWsEndpoint(ws_endpoint,
                                            call.response.data.debug_port,
                                            call.probe),
                         selected |-> ws_endpoint]

\* The requests close_profile sends: GET /api/v1/browser/stop with the
\* parameters that name the profile, whatever they are.
CloseRequests(call) ==
  <<[path |-> "stop",
     params |-> GetProfileParams(call.profile_id, call.serial_number)]>>

\* A close_profile that takes any JSON answer for a stopped profile.
CloseProfileReturnAnyBody(response) ==
  response.kind \in {"json", "json_no_code"}

\* close_profile(profile_id, serial_number) -> bool, given what the stop
\* request comes back with.  Every exception is caught and gives False;
\* a body without "code" gives False as well.
CloseProfileReturn(response) ==
  response.kind = "json" /\ response.code = 0

(***************************************************************************)
(* Profile orchestrator (AutomationManager).                               *)
(***************************************************************************)
Profiles == 1..NumProfiles

\* The settings of config.yaml that the orchestrator reads.  verify_username
\* is the global toggle, gs_verify_username the one of the google_sheets
\* section, <<>> when that section does not set it.
SettingsChoices ==
  [max_workers : 1..MaxWorkers, use_google_sheets : {FALSE},
   verify_username : BOOLEAN, gs_verify_username : {<<>>}]
  \cup
  [max_workers : 1..MaxWorkers, use_google_sheets : {TRUE},
   verify_username : {TRUE}, gs_verify_username : {<<TRUE>>, <<FALSE>>}]
  \cup
  [max_workers : 1..MaxWorkers, use_google_sheets : {TRUE},
   verify_username : {FALSE}, gs_verify_username : {<<>>, <<TRUE>>}]

\* The username of the i-th roster entry: every other profile names the
\* account it expects, the others leave the field empty.
RosterUsername(i) ==
  IF i % 2 = 1 THEN TxtAlice ELSE <<>>

\* A profile record of config.yaml: a profile_id key that may be missing or
\* hold an empty value when the profile is named by its serial_number.
ConfigProfile(i) ==
  { [has_profile_id |-> TRUE, profile_id |-> <<"p", i>>, serial_number |-> 0,
     username |-> RosterUsername(i), row_number |-> 0],
    [has_profile_id |-> TRUE, profile_id |-> <<>>, serial_number |-> i,
     username |-> RosterUsername(i), row_number |-> 0],
    [has_profile_id |-> FALSE, profile_id |-> <<>>, serial_number |-> i,
     username |-> RosterUsername(i), row_number |-> 0] }

\* A profile record built from a spreadsheet row.  get_profiles takes the
\* id cell of every non-empty row as it is, so a row may repeat the id of
\* the first row.
SheetProfile(i) ==
  { [has_profile_id |-> TRUE, profile_id |-> <<"p", k>>, serial_number |-> 0,
     username |-> RosterUsername(i), row_number |-> i + 1] : k \in {1, i} }

\* ConfigManager._validate on the profile list: every profile has a
\* profile_id or a serial_number (0 stands for an absent serial number), and
\* no profile_id and no serial_number occurs twice.
Validate(ps) ==
  /\ \A i \in DOMAIN ps :
       (ps[i].has_profile_id /\ ps[i].profile_id # <<>>) \/ ps[i].serial_number # 0
  /\ \A i, j \in DOMAIN ps :
       i # j =>
         /\ ~(ps[i].profile_id # <<>> /\ ps[i].profile_id = ps[j].profile_id)
         /\ ~(ps[i].serial_number # 0 /\ ps[i].serial_number = ps[j].serial_number)

VARIABLES
  settings,    \* config.settings
  profiles,    \* the roster handed to run()
  pc,          \* per profile: where its processing stands
  trace,       \* per profile: the driver calls and exceptions so far
  result,      \* per profile: the dictionary _process_profile is about to return
  future,      \* per profile: status of the returned dictionary, "" before
  browser,     \* per profile: local `browser` is set
  opens,       \* per profile: browser connections opened
  closes,      \* per profile: browser.close() calls
  stops,       \* per profile: close_profile requests
  outcomes,    \* per profile: statuses counted as successful or failed
  sheet,       \* per profile: status cell of its spreadsheet row
  stats,       \* self.stats
  submitted,   \* tasks handed to the executor
  run,         \* "running", "completed", "aborted" or "interrupted"
  stats_lock,  \* self._stats_lock: 0 when free, else the profile whose thread holds it
  loaded,      \* per profile: the counter value read by `+=`, <<>> outside of it
  calls,       \* per counter: _update_stats calls that returned
  attempt,     \* per profile: attempts of upload_file that raised
  api,         \* a start_profile call on its own: its inputs and what it returned
  main,        \* main(): its position, exit code, and what happened to it
  driver,      \* a driver stage call on its own: its inputs, steps and return
  sink,        \* the sheet's lock, the update_status calls and the cell writes
  starts       \* per profile: start requests sent by start_profile

vars ==
  <<settings, profiles, pc, trace, result, future, browser, opens,
    closes, stops, outcomes, sheet, stats, submitted, run, stats_lock,
    loaded, calls, attempt, api, main, driver, sink, starts>>

\* AutomationManager.__init__: self.use_threading
UseThreading ==
  settings.max_workers > 1

\* A toggle that reads the global setting only.
VerifyEnabledGlobalOnly ==
  settings.verify_username

\* verify_enabled: settings.get('verify_username', True), replaced when the
\* sheet is in use by settings['google_sheets'].get('verify_username',
\* verify_enabled).
VerifyEnabled ==
  IF settings.use_google_sheets /\ settings.gs_verify_username # <<>>
    THEN settings.gs_verify_username[1]
    ELSE settings.verify_username

\* `self.use_google_sheets and row_number`
SinkRow(i) ==
  settings.use_google_sheets /\ profiles[i].row_number # 0

NoResult ==
  [status |-> "NONE", message |-> <<>>, expected_username |-> <<>>,
   actual_username |-> <<>>]

\* {'status': ..., 'message': ...}
Res(status, message) ==
  [status |-> status, message |-> message, expected_username |-> <<>>,
   actual_username |-> <<>>]

ZeroStats ==
  [total |-> 0, successful |-> 0, failed |-> 0, skipped |-> 0,
   not_authenticated |-> 0, channel_unavailable |-> 0,
   username_mismatch |-> 0]

\* main() is entered.
MainStart ==
  [pc |-> "setup", exit_code |-> <<>>, interrupted |-> FALSE,
   interrupted_in |-> "", declined |-> FALSE, fatal |-> FALSE]

\* A KeyboardInterrupt is delivered to the main thread, in the phase of
\* main() it is in.
Interrupted(m) ==
  [m EXCEPT !.interrupted = TRUE, !.interrupted_in = m.pc]

\* main() returns code and sys.exit(code) ends the process.
Exited(m, code) ==
  [m EXCEPT !.pc = "exited", !.exit_code = <<code>>]

\* A KeyboardInterrupt on its way out of _process_profile.
Propagating ==
  [status |-> "KeyboardInterrupt", message |-> <<>>, expected_username |-> <<>>,
   actual_username |-> <<>>]

\* No controller call is looked at on its own.
NoCall ==
  [call |-> <<>>, requests |-> <<>>, returned |-> <<>>, after |-> <<>>]

\* AutomationManager.__init__ and the roster run() loads.
InitOrchestrator ==
  /\ settings \in SettingsChoices
  /\ profiles \in [Profiles -> UNION {ConfigProfile(i) \cup SheetProfile(i) : i \in Profiles}]
  /\ \A i \in Profiles :
       profiles[i] \in (IF settings.use_google_sheets
                          THEN SheetProfile(i) ELSE ConfigProfile(i))
  /\ settings.use_google_sheets \/ Validate(profiles)
  /\ pc = [i \in Profiles |-> "pending"]
  /\ trace = [i \in Profiles |-> <<>>]
  /\ result = [i \in Profiles |-> NoResult]
  /\ future = [i \in Profiles |-> ""]
  /\ browser = [i \in Profiles |-> FALSE]
  /\ opens = [i \in Profiles |-> 0]
  /\ closes = [i \in Profiles |-> 0]
  /\ stops = [i \in Profiles |-> 0]
  /\ starts = [i \in Profiles |-> 0]
  /\ outcomes = [i \in Profiles |-> <<>>]
  /\ sheet = [i \in Profiles |-> "Pending"]
  /\ stats = ZeroStats
  /\ submitted = 0
  /\ run = "running"
  /\ stats_lock = 0
  /\ loaded = [i \in Profiles |-> <<>>]
  /\ calls = ZeroStats
  /\ attempt = [i \in Profiles |-> 0]
  /\ main = MainStart

\* No driver stage call is looked at on its own.
NoStage ==
  [call |-> <<>>, pc |-> "", log |-> <<>>, returned |-> <<>>, result |-> <<>>]

\* The update_status calls of a threaded run: set_in_progress by the pool
\* thread of a profile, the result's status by the collecting thread.
Updates ==
  Profiles \X {"in_progress", "final"}

\* No update_status call is looked at step by step.
NoSink ==
  [options |-> [log_timestamp |-> TRUE, log_message |-> TRUE],
   lock |-> <<>>,
   at |-> [u \in Updates |-> [pc |-> "idle", written |-> 0]],
   log |-> <<>>]

Init ==
  /\ InitOrchestrator
  /\ api = NoCall
  /\ driver = NoStage
  /\ sink = NoSink

\* Positions of a profile that occupy the thread running its pipeline.
WorkerPcs ==
  {"total", "total_store", "inprog", "image", "start", "connect", "s1", "s2", "s3_goto",
   "s3_check", "s3_wait", "s3_recheck", "s3_focus", "s4", "stop"}

\* Positions of a profile while its result is being recorded.
HandlerPcs ==
  {"h_failed", "h_forward", "delay"}

\* Positions of a profile inside one of the four driver stages.
StagePcs ==
  {"s1", "s2", "s3_goto", "s3_check", "s3_wait", "s3_recheck", "s3_focus", "s4"}

ActiveWorkers ==
  Cardinality({i \in Profiles : pc[i] \in WorkerPcs})

\* A counter update that counts a failure twice.
UpdateStatsFailedTwice(s, key) ==
  [s EXCEPT ![key] = IF key = "failed" THEN @ + 2 ELSE @ + 1]

\* _update_stats(key)
UpdateStats(s, key) ==
  [s EXCEPT ![key] = @ + 1]

\* A loop that starts a profile without waiting for the ones before it.
SequentialTurnAny(i) ==
  i \in Profiles

\* A loop that moves on as soon as the profile before has begun.
SequentialTurnOverlapping(i) ==
  \A j \in Profiles : j < i => pc[j] # "pending"

\* The for loop of _run_sequential reaches profile i.
SequentialTurn(i) ==
  \A j \in Profiles : j < i => pc[j] = "finished"

\* A pool thread takes task i off the executor's queue.
WorkerTakes(i) ==
  /\ i <= submitted
  /\ \A j \in Profiles : j < i => pc[j] # "pending"
  /\ ActiveWorkers < settings.max_workers

\* _run_threaded: executor.submit for the next profile of the roster.
Submit ==
  /\ UseThreading
  /\ main.pc = "run"
  /\ run = "running"
  /\ submitted < NumProfiles
  /\ submitted' = submitted + 1
  /\ UNCHANGED <<future, settings, profiles, pc, trace, result, browser,
                 opens, closes, stops, outcomes, sheet, stats, run,
                 stats_lock, loaded, calls, attempt, api, main, driver, sink,
                 starts>>

\* The profile's fields are read: the head of the loop body of
\* _run_sequential, or of _process_profile_wrapper on a pool thread.
\* profile['profile_id'] raises KeyError when the key is missing.
ReadProfile(i) ==
  /\ pc[i] = "pending"
  /\ IF UseThreading
       THEN WorkerTakes(i)
       ELSE main.pc = "run" /\ run = "running" /\ SequentialTurn(i)
  /\ IF profiles[i].has_profile_id
       THEN /\ pc' = [pc EXCEPT ![i] = "total"]
            /\ run' = run
       ELSE /\ pc' = [pc EXCEPT ![i] = "raised"]
            /\ run' = IF UseThreading THEN run ELSE "aborted"
  /\ UNCHANGED <<future, settings, profiles, trace, result, browser, opens, closes,
                 stops, outcomes, sheet, stats, submitted,
                 stats_lock, loaded, calls, attempt, api, main, driver, sink,
                 starts>>

\* An acquire that does not wait for the holder of the lock.
LockIgnored(lock) ==
  TRUE

\* `with self._stats_lock:` may be entered.
LockFree(lock) ==
  lock = 0

\* _update_stats returned: one more call on the counter.
Called(c, key) ==
  [c EXCEPT ![key] = @ + 1]

\* self._update_stats('total'): the lock is taken and `self.stats[key] +=`
\* reads the counter.
CountTotal(i) ==
  /\ pc[i] = "total"
  /\ LockFree(stats_lock)
  /\ stats_lock' = i
  /\ loaded' = [loaded EXCEPT ![i] = <<stats.total>>]
  /\ pc' = [pc EXCEPT ![i] = "total_store"]
  /\ UNCHANGED <<future, settings, profiles, trace, result, browser, opens,
                 closes, stops, outcomes, sheet, stats, submitted, run, calls,
                 attempt, api, main, driver, sink, starts>>

\* self._update_stats('total'): `+=` stores the value it read plus one and
\* the lock is released.
StoreTotal(i) ==
  /\ pc[i] = "total_store"
  /\ stats' = UpdateStats([stats EXCEPT !.total = loaded[i][1]], "total")
  /\ calls' = Called(calls, "total")
  /\ loaded' = [loaded EXCEPT ![i] = <<>>]
  /\ stats_lock' = 0
  /\ pc' = [pc EXCEPT ![i] = IF SinkRow(i) THEN "inprog" ELSE "image"]
  /\ UNCHANGED <<future, settings, profiles, trace, result, browser, opens,
                 closes, stops, outcomes, sheet, submitted, run, attempt,
                 api, main, driver, sink, starts>>

SinkWritePropagates(written) ==
  ~written

\* update_status: whether the call ends with the exception of a failed
\* cell write.  The write runs in try / except Exception, which logs it.
SinkWriteRaises(written) ==
  FALSE

\* google_sheets.set_in_progress(row_number); update_status swallows a
\* failed write.
MarkInProgress(i) ==
  /\ pc[i] = "inprog"
  /\ \E written \in BOOLEAN :
       /\ sheet' = [sheet EXCEPT ![i] = IF written THEN "In Progress" ELSE @]
       /\ IF SinkWriteRaises(written)
            THEN /\ pc' = [pc EXCEPT ![i] = "raised"]
                 /\ run' = IF UseThreading THEN run ELSE "aborted"
            ELSE /\ pc' = [pc EXCEPT ![i] = "image"]
                 /\ run' = run
  /\ UNCHANGED <<future, settings, profiles, trace, result, browser, opens,
                 closes, stops, outcomes, stats, submitted,
                 stats_lock, loaded, calls, attempt, api, main, driver, sink,
                 starts>>

\* An inner finally that leaves the browser connection open.
CloseBrowserSkipped(n, b) ==
  n

\* The inner finally of _process_profile: browser.close() if browser is set.
CloseBrowser(n, b) ==
  IF b THEN n + 1 ELSE n

\* An exception reaches one of the except clauses of _process_profile.
Raised(i) ==
  trace' = [trace EXCEPT ![i] = Append(@, [stage |-> "exception", ok |-> FALSE])]

\* A return or a caught exception inside _process_profile: the result is
\* fixed, the inner finally runs, the outer finally is next.
Leave(i, res, b) ==
  /\ result' = [result EXCEPT ![i] = res]
  /\ closes' = [closes EXCEPT ![i] = CloseBrowser(@, b)]
  /\ pc' = [pc EXCEPT ![i] = "stop"]

\* _process_profile: config.get_image_path(image_name)
FindImage(i) ==
  /\ pc[i] = "image"
  /\ \E in \in {"found", "missing", "error"} :
       CASE in = "found" ->
              /\ pc' = [pc EXCEPT ![i] = "start"]
              /\ UNCHANGED <<trace, result, closes>>
         [] in = "missing" ->
              /\ trace' = trace
              /\ Leave(i, Res("FAILED", TxtImageNotFoundPrefix \o TxtImageName),
                       browser[i])
         [] in = "error" ->
              /\ Raised(i)
              /\ Leave(i, Res("FAILED", TxtUnexpectedErrorPrefix \o TxtErrConnectionReset),
                       browser[i])
  /\ UNCHANGED <<future, settings, profiles, browser, opens, stops,
                 outcomes, sheet, stats, submitted, run,
                 stats_lock, loaded, calls, attempt, api, main, driver, sink,
                 starts>>

\* start_profile(profile_id): with an empty id and no serial number it
\* returns (False, None) before any request is sent.
StartsSent(n, profile_id) ==
  IF profile_id # <<>> THEN n + 1 ELSE n

\* AdsPowerAPI.start_profile(profile_id): fails without a request when the
\* id is empty, and on every transport or protocol failure.
StartProfile(i) ==
  /\ pc[i] = "start"
  /\ \E started \in (IF profiles[i].profile_id = <<>> THEN {FALSE} ELSE BOOLEAN) :
       IF started
         THEN /\ pc' = [pc EXCEPT ![i] = "connect"]
              /\ UNCHANGED <<result, closes>>
         ELSE Leave(i, Res("FAILED", TxtCouldNotStart), browser[i])
  /\ starts' = [starts EXCEPT ![i] = StartsSent(@, profiles[i].profile_id)]
  /\ UNCHANGED <<future, settings, profiles, trace, browser, opens, stops,
                 outcomes, sheet, stats, submitted, run,
                 stats_lock, loaded, calls, attempt, api, main, driver, sink>>

\* with sync_playwright(): connect_over_cdp, contexts, page and the
\* DiscordAutomation constructor.
Connect(i) ==
  /\ pc[i] = "connect"
  /\ \E in \in {"ok", "playwright_error", "connect_error", "no_contexts",
                "setup_error"} :
       CASE in = "ok" ->
              /\ browser' = [browser EXCEPT ![i] = TRUE]
              /\ opens' = [opens EXCEPT ![i] = @ + 1]
              /\ pc' = [pc EXCEPT ![i] = "s1"]
              /\ UNCHANGED <<trace, result, closes>>
         [] in = "playwright_error" ->
              /\ UNCHANGED <<browser, opens>>
              /\ Raised(i)
              /\ Leave(i, Res("FAILED", TxtUnexpectedErrorPrefix \o TxtErrConnectionReset),
                       FALSE)
         [] in = "connect_error" ->
              /\ UNCHANGED <<browser, opens>>
              /\ Raised(i)
              /\ Leave(i, Res("FAILED", TxtAutomationErrorPrefix \o TxtErrConnectionReset),
                       FALSE)
         [] in = "no_contexts" ->
              /\ browser' = [browser EXCEPT ![i] = TRUE]
              /\ opens' = [opens EXCEPT ![i] = @ + 1]
              /\ trace' = trace
              /\ Leave(i, Res("FAILED", TxtNoContexts), TRUE)
         [] in = "setup_error" ->
              /\ browser' = [browser EXCEPT ![i] = TRUE]
              /\ opens' = [opens EXCEPT ![i] = @ + 1]
              /\ Raised(i)
              /\ Leave(i, Res("FAILED", TxtAutomationErrorPrefix \o TxtErrConnectionReset),
                       TRUE)
  /\ UNCHANGED <<future, settings, profiles, stops, outcomes, sheet,
                 stats, submitted, run, stats_lock, loaded, calls, attempt,
                 api, main, driver, sink, starts>>

\* A classification that looks for "unavailable" only.
ClassifyUnavailableOnly(nav_message) ==
  IF Contains(Lower(nav_message), KwUnavailable)
    THEN "CHANNEL_UNAVAILABLE"
    ELSE "FAILED"

\* if "access" in nav_message.lower() or "unavailable" in nav_message.lower()
ClassifyNavFailure(nav_message) ==
  IF \/ Contains(Lower(nav_message), KwAccess)
     \/ Contains(Lower(nav_message), KwUnavailable)
    THEN "CHANNEL_UNAVAILABLE"
    ELSE "FAILED"

\* A step 1 that goes on whatever check_authentication returned.
AuthResultIgnored(r) ==
  NoResult

\* Step 1 of _process_profile: the result a check_authentication return
\* leads to, NoResult when processing goes on.
AuthResult(r) ==
  IF ~r[1] THEN Res("NOT_AUTHENTICATED", r[2]) ELSE NoResult

\* Step 2: the result a verify_username return leads to.
VerifyResult(expected_username, r) ==
  IF ~r[1]
    THEN [status |-> "USERNAME_MISMATCH", message |-> r[3],
          expected_username |-> expected_username, actual_username |-> r[2]]
    ELSE NoResult

\* Step 3: the result a navigate_to_channel return leads to.
NavResult(r) ==
  IF ~r[1] THEN Res(ClassifyNavFailure(r[2]), r[2]) ELSE NoResult

\* A step 4 that reports success whatever upload_and_send_image returned.
UploadResultLenient(r) ==
  Res("SUCCESS", TxtImageSent)

\* Step 4: the result an upload_and_send_image return leads to.
UploadResult(r) ==
  IF ~r[1] THEN Res("FAILED", r[2]) ELSE Res("SUCCESS", TxtImageSent)

\* `if expected_username and verify_enabled`
VerifyWanted(expected_username) ==
  expected_username # <<>> /\ VerifyEnabled

\* A driver stage returned: record the call, then return its result or go on.
StageReturns(i, stage, r, res, next) ==
  /\ trace' = [trace EXCEPT ![i] = Append(@, [stage |-> stage, ok |-> r[1]])]
  /\ IF res = NoResult
       THEN /\ pc' = [pc EXCEPT ![i] = next]
            /\ UNCHANGED <<result, closes>>
       ELSE Leave(i, res, browser[i])

\* Step 1: discord.check_authentication()
Authenticate(i) ==
  /\ pc[i] = "s1"
  /\ \E in \in AuthInputs :
       LET r == CheckAuthentication(in)
       IN  StageReturns(i, "auth", r, AuthResult(r),
                        IF VerifyWanted(profiles[i].username) THEN "s2" ELSE "s3_goto")
  /\ UNCHANGED <<future, settings, profiles, browser, opens, stops,
                 outcomes, sheet, stats, submitted, run,
                 stats_lock, loaded, calls, attempt, api, main, driver, sink,
                 starts>>

\* Step 2: discord.verify_username(expected_username)
Verify(i) ==
  /\ pc[i] = "s2"
  /\ \E page \in DetectedPages :
       LET r == VerifyUsername(profiles[i].username, page)
       IN  StageReturns(i, "verify", r, VerifyResult(profiles[i].username, r), "s3_goto")
  /\ UNCHANGED <<future, settings, profiles, browser, opens, stops,
                 outcomes, sheet, stats, submitted, run,
                 stats_lock, loaded, calls, attempt, api, main, driver, sink,
                 starts>>

\* Step 3, navigate_to_channel: page.goto and the load wait.
NavGoto(i) ==
  /\ pc[i] = "s3_goto"
  /\ \E in \in GotoInputs, e \in ErrTexts :
       IF in = "ok"
         THEN /\ pc' = [pc EXCEPT ![i] = "s3_check"]
              /\ UNCHANGED <<trace, result, closes>>
         ELSE LET r == NavigateExcept(in, e)
              IN  StageReturns(i, "nav", r, NavResult(r), "s4")
  /\ UNCHANGED <<future, settings, profiles, browser, opens, stops,
                 outcomes, sheet, stats, submitted, run,
                 stats_lock, loaded, calls, attempt, api, main, driver, sink,
                 starts>>

\* Step 3, navigate_to_channel: the access check made first.
NavCheck(i) ==
  /\ pc[i] = "s3_check"
  /\ \E sig \in AccessSignals :
       LET r == CheckChannelAccess(sig)
       IN  IF r[1]
             THEN /\ trace' = [trace EXCEPT ![i] =
                                 Append(@, [stage |-> "nav_check", ok |-> TRUE])]
                  /\ pc' = [pc EXCEPT ![i] = "s3_wait"]
                  /\ UNCHANGED <<result, closes>>
             ELSE /\ trace' = [trace EXCEPT ![i] =
                                 Append(Append(@, [stage |-> "nav_check", ok |-> FALSE]),
                                        [stage |-> "nav", ok |-> FALSE])]
                  /\ Leave(i, NavResult(r), browser[i])
  /\ UNCHANGED <<future, settings, profiles, browser, opens, stops,
                 outcomes, sheet, stats, submitted, run,
                 stats_lock, loaded, calls, attempt, api, main, driver, sink,
                 starts>>

\* Step 3, navigate_to_channel: _wait_for_element(channel_indicators).
NavWait(i) ==
  /\ pc[i] = "s3_wait"
  /\ \E found \in BOOLEAN :
       /\ trace' = [trace EXCEPT ![i] =
                      Append(@, [stage |-> "nav_wait", ok |-> found])]
       /\ pc' = [pc EXCEPT ![i] = IF found THEN "s3_focus" ELSE "s3_recheck"]
  /\ UNCHANGED <<future, settings, profiles, result, browser, opens, closes,
                 stops, outcomes, sheet, stats, submitted, run,
                 stats_lock, loaded, calls, attempt, api, main, driver, sink,
                 starts>>

\* Step 3, navigate_to_channel: the second access check, made when no chat
\* marker was found.
NavRecheck(i) ==
  /\ pc[i] = "s3_recheck"
  /\ \E sig \in AccessSignals :
       LET a == CheckChannelAccess(sig)
           r == IF a[1] THEN <<FALSE, TxtElementsNotFound>> ELSE a
       IN  /\ trace' = [trace EXCEPT ![i] =
                          Append(Append(@, [stage |-> "nav_check", ok |-> a[1]]),
                                 [stage |-> "nav", ok |-> FALSE])]
           /\ Leave(i, NavResult(r), browser[i])
  /\ UNCHANGED <<future, settings, profiles, browser, opens, stops,
                 outcomes, sheet, stats, submitted, run,
                 stats_lock, loaded, calls, attempt, api, main, driver, sink,
                 starts>>

\* Step 3, navigate_to_channel: the message input is waited for and focused.
NavFocus(i) ==
  /\ pc[i] = "s3_focus"
  /\ \E in \in FocusInputs :
       LET r == NavigateFocus(in)
       IN  /\ trace' = [trace EXCEPT ![i] =
                          Append(Append(@, [stage |-> "nav_focus",
                                            ok |-> in = "ok"]),
                                 [stage |-> "nav", ok |-> r[1]])]
           /\ IF NavResult(r) = NoResult
                THEN /\ pc' = [pc EXCEPT ![i] = "s4"]
                     /\ UNCHANGED <<result, closes>>
                ELSE Leave(i, NavResult(r), browser[i])
  /\ UNCHANGED <<future, settings, profiles, browser, opens, stops,
                 outcomes, sheet, stats, submitted, run,
                 stats_lock, loaded, calls, attempt, api, main, driver, sink,
                 starts>>

\* _retry_action: `for attempt in range(max_retries)` has an attempt left.
MayRetry(failed) ==
  failed < MaxRetries

\* _retry_action inside upload_and_send_image: an attempt of upload_file
\* is made and raises; the delay follows if another attempt is left.
RetryUpload(i) ==
  /\ pc[i] = "s4"
  /\ MayRetry(attempt[i])
  /\ attempt' = [attempt EXCEPT ![i] = @ + 1]
  /\ UNCHANGED <<future, settings, profiles, pc, trace, result, browser,
                 opens, closes, stops, outcomes, sheet, stats, submitted,
                 run, stats_lock, loaded, calls, api, main, driver, sink,
                 starts>>

\* Step 4: discord.upload_and_send_image(image_path)
Upload(i) ==
  /\ pc[i] = "s4"
  /\ \E r \in UploadReturnsAfter(attempt[i]) :
       StageReturns(i, "upload", r, UploadResult(r), "stop")
  /\ attempt' = [attempt EXCEPT ![i] = 0]
  /\ UNCHANGED <<future, settings, profiles, browser, opens, stops,
                 outcomes, sheet, stats, submitted, run,
                 stats_lock, loaded, calls, api, main, driver, sink, starts>>

\* The outer finally of _process_profile: `if profile_id:` close_profile.
StopRequests(n, profile_id) ==
  IF profile_id # <<>> THEN n + 1 ELSE n

\* An outer finally that reports a profile whose stop request failed as
\* failed.
ReturnFailedStop(res, closed) ==
  IF closed THEN res ELSE [res EXCEPT !.status = "FAILED"]

\* What _process_profile returns once its outer finally has run: the
\* finally has no return statement and drops what close_profile returned.
ReturnAfterStop(res, closed) ==
  res

\* The outer finally runs and _process_profile returns its result, or the
\* KeyboardInterrupt that was on its way leaves _process_profile and the
\* loop of _run_sequential; the locals of the call are gone.
StopProfile(i) ==
  /\ pc[i] = "stop"
  /\ stops' = [stops EXCEPT ![i] = StopRequests(@, profiles[i].profile_id)]
  /\ IF result[i] = Propagating
       THEN /\ pc' = [pc EXCEPT ![i] = "interrupted"]
            /\ run' = "interrupted"
            /\ future' = future
       ELSE /\ pc' = [pc EXCEPT ![i] = "returned"]
            /\ run' = run
            /\ \E closed \in BOOLEAN :
                 future' = [future EXCEPT ![i] =
                              ReturnAfterStop(result[i], closed).status]
  /\ result' = [result EXCEPT ![i] = NoResult]
  /\ trace' = [trace EXCEPT ![i] = <<>>]
  /\ browser' = [browser EXCEPT ![i] = FALSE]
  /\ UNCHANGED <<settings, profiles, opens, closes, outcomes, sheet, stats,
                 submitted, stats_lock, loaded, calls, attempt, api, main,
                 driver, sink, starts>>

\* The as_completed loop of _run_threaded handles one future at a time.
CollectorFree ==
  /\ UseThreading
  /\ run = "running"
  /\ submitted = NumProfiles
  /\ \A j \in Profiles : pc[j] \notin HandlerPcs

\* _handle_result: the counter the status is counted under first.
FirstCounter(status) ==
  CASE status = "SUCCESS"             -> "successful"
    [] status = "NOT_AUTHENTICATED"   -> "not_authenticated"
    [] status = "CHANNEL_UNAVAILABLE" -> "channel_unavailable"
    [] status = "USERNAME_MISMATCH"   -> "username_mismatch"
    [] OTHER                          -> "failed"

\* GoogleSheetsManager: the status cell value written for a result status.
SheetStatus(status) ==
  CASE status = "SUCCESS"             -> "Successful"
    [] status = "NOT_AUTHENTICATED"   -> "Not Authenticated"
    [] status = "CHANNEL_UNAVAILABLE" -> "Channel Unavailable"
    [] status = "USERNAME_MISMATCH"   -> "Username Mismatch"
    [] OTHER                          -> "Failed"

\* _handle_result(profile_id, result, row_number): the first _update_stats.
\* In threaded mode the collector takes a completed future first.
HandleResult(i) ==
  /\ pc[i] = "returned"
  /\ IF UseThreading THEN CollectorFree ELSE run = "running"
  /\ LockFree(stats_lock)
  /\ LET key == FirstCounter(future[i])
     IN  /\ stats' = UpdateStats(stats, key)
         /\ calls' = Called(calls, key)
         /\ IF key \in {"successful", "failed"}
              THEN /\ outcomes' = [outcomes EXCEPT ![i] = Append(@, future[i])]
                   /\ pc' = [pc EXCEPT ![i] = "h_forward"]
              ELSE /\ outcomes' = outcomes
                   /\ pc' = [pc EXCEPT ![i] = "h_failed"]
  /\ UNCHANGED <<future, settings, profiles, trace, result, browser, opens,
                 closes, stops, sheet, submitted, run, stats_lock, loaded,
                 attempt, api, main, driver, sink, starts>>

\* _handle_result: self._update_stats('failed') after a sub-category counter.
HandleFailed(i) ==
  /\ pc[i] = "h_failed"
  /\ run = "running"
  /\ LockFree(stats_lock)
  /\ stats' = UpdateStats(stats, "failed")
  /\ calls' = Called(calls, "failed")
  /\ outcomes' = [outcomes EXCEPT ![i] = Append(@, future[i])]
  /\ pc' = [pc EXCEPT ![i] = "h_forward"]
  /\ UNCHANGED <<future, settings, profiles, trace, result, browser, opens,
                 closes, stops, sheet, submitted, run, stats_lock, loaded,
                 attempt, api, main, driver, sink, starts>>

\* _handle_result: the result goes to the sheet row and to _notify_user;
\* the loop iteration ends.
Forward(i) ==
  /\ pc[i] = "h_forward"
  /\ run = "running"
  /\ \E written \in (IF SinkRow(i) THEN BOOLEAN ELSE {TRUE}) :
       /\ sheet' = [sheet EXCEPT ![i] =
                      IF SinkRow(i) /\ written THEN SheetStatus(future[i])
                                                ELSE @]
       /\ IF SinkRow(i) /\ SinkWriteRaises(written)
            THEN /\ pc' = [pc EXCEPT ![i] = "raised"]
                 /\ run' = "aborted"
            ELSE /\ pc' = [pc EXCEPT ![i] =
                             IF ~UseThreading /\ i < NumProfiles
                               THEN "delay" ELSE "finished"]
                 /\ run' = run
  /\ future' = [future EXCEPT ![i] = ""]
  /\ UNCHANGED <<settings, profiles, trace, result, browser, opens,
                 closes, stops, outcomes, stats, submitted,
                 stats_lock, loaded, calls, attempt, api, main, driver, sink,
                 starts>>

\* _run_sequential: the delay between two profiles.
Delay(i) ==
  /\ pc[i] = "delay"
  /\ run = "running"
  /\ pc' = [pc EXCEPT ![i] = "finished"]
  /\ UNCHANGED <<future, settings, profiles, trace, result, browser, opens,
                 closes, stops, outcomes, sheet, stats, submitted, run,
                 stats_lock, loaded, calls, attempt, api, main, driver, sink,
                 starts>>

\* The as_completed loop takes a future whose task raised.  The loop reads
\* profile['profile_id'] before its try block, so the KeyError of a record
\* without that key is raised again here and leaves _run_threaded; the
\* executor's shutdown still lets the pool finish the queued tasks.
\* Otherwise the except branch counts the profile as failed.
CollectRaised(i) ==
  /\ pc[i] = "raised"
  /\ CollectorFree
  /\ IF ~profiles[i].has_profile_id
       THEN /\ run' = "aborted"
            /\ UNCHANGED <<pc, stats, outcomes, sheet, calls>>
       ELSE /\ LockFree(stats_lock)
            /\ stats' = UpdateStats(stats, "failed")
            /\ calls' = Called(calls, "failed")
            /\ outcomes' = [outcomes EXCEPT ![i] = Append(@, "FAILED")]
            /\ sheet' = [sheet EXCEPT ![i] = IF SinkRow(i) THEN "Failed" ELSE @]
            /\ pc' = [pc EXCEPT ![i] = "finished"]
            /\ run' = run
  /\ UNCHANGED <<future, settings, profiles, trace, result, browser, opens,
                 closes, stops, submitted, stats_lock, loaded, attempt, api,
                 main, driver, sink, starts>>

\* run(): every profile was handled, _print_statistics.
Complete ==
  /\ run = "running"
  /\ \A i \in Profiles : pc[i] = "finished"
  /\ run' = "completed"
  /\ UNCHANGED <<future, settings, profiles, pc, trace, result, browser,
                 opens, closes, stops, outcomes, sheet, stats, submitted,
                 stats_lock, loaded, calls, attempt, api, main, driver, sink,
                 starts>>

\* main(): configuration, images directory, browser library and profile
\* checks; a failed one returns 1.  With a config.yaml roster a missing
\* image leads to the question whether to continue.
SetupMain ==
  /\ main.pc = "setup"
  /\ \E in \in {"fatal", "ready", "missing_images"} :
       CASE in = "fatal" ->
              main' = Exited([main EXCEPT !.fatal = TRUE], 1)
         [] in = "ready" ->
              main' = [main EXCEPT !.pc = "confirm_start"]
         [] in = "missing_images" ->
              /\ ~settings.use_google_sheets
              /\ main' = [main EXCEPT !.pc = "confirm_images"]
  /\ UNCHANGED <<settings, profiles, pc, trace, result, future, browser,
                 opens, closes, stops, outcomes, sheet, stats, submitted,
                 run, stats_lock, loaded, calls, attempt, api, driver, sink,
                 starts>>

\* main(): input("Do you want to continue anyway? (y/n): ")
ConfirmImages ==
  /\ main.pc = "confirm_images"
  /\ \E response \in {"y", "n"} :
       main' = IF response = "y"
                 THEN [main EXCEPT !.pc = "confirm_start"]
                 ELSE Exited([main EXCEPT !.declined = TRUE], 0)
  /\ UNCHANGED <<settings, profiles, pc, trace, result, future, browser,
                 opens, closes, stops, outcomes, sheet, stats, submitted,
                 run, stats_lock, loaded, calls, attempt, api, driver, sink,
                 starts>>

\* main(): input("Press Enter to start or Ctrl+C to cancel...") returns
\* and manager.run() is called.
ConfirmStart ==
  /\ main.pc = "confirm_start"
  /\ main' = [main EXCEPT !.pc = "run"]
  /\ UNCHANGED <<settings, profiles, pc, trace, result, future, browser,
                 opens, closes, stops, outcomes, sheet, stats, submitted,
                 run, stats_lock, loaded, calls, attempt, api, driver, sink,
                 starts>>

\* At most one KeyboardInterrupt is delivered in a behaviour.
MayInterrupt ==
  ~main.interrupted

\* Ctrl+C during the checks of main(): `except KeyboardInterrupt` returns 130.
InterruptSetup ==
  /\ MayInterrupt
  /\ main.pc = "setup"
  /\ main' = Exited(Interrupted(main), 130)
  /\ UNCHANGED <<settings, profiles, pc, trace, result, future, browser,
                 opens, closes, stops, outcomes, sheet, stats, submitted,
                 run, stats_lock, loaded, calls, attempt, api, driver, sink,
                 starts>>

\* Ctrl+C at one of the two input() prompts: the except clause around the
\* prompt prints "Aborted." and returns 0.
InterruptPrompt ==
  /\ MayInterrupt
  /\ main.pc \in {"confirm_images", "confirm_start"}
  /\ main' = Exited(Interrupted(main), 0)
  /\ UNCHANGED <<settings, profiles, pc, trace, result, future, browser,
                 opens, closes, stops, outcomes, sheet, stats, submitted,
                 run, stats_lock, loaded, calls, attempt, api, driver, sink,
                 starts>>

\* Ctrl+C while the main thread is in _run_threaded: the KeyboardInterrupt
\* leaves the submit or as_completed loop; the pool threads go on.
InterruptCollector ==
  /\ MayInterrupt
  /\ UseThreading
  /\ main.pc = "run"
  /\ run = "running"
  /\ main' = Interrupted(main)
  /\ run' = "interrupted"
  /\ UNCHANGED <<settings, profiles, pc, trace, result, future, browser,
                 opens, closes, stops, outcomes, sheet, stats, submitted,
                 stats_lock, loaded, calls, attempt, api, driver, sink,
                 starts>>

\* Ctrl+C while the loop of _run_sequential is outside of a pipeline: in
\* _handle_result, in the delay, or between two iterations.
InterruptLoop ==
  /\ MayInterrupt
  /\ ~UseThreading
  /\ main.pc = "run"
  /\ run = "running"
  /\ \A i \in Profiles : pc[i] \notin WorkerPcs
  /\ main' = Interrupted(main)
  /\ run' = "interrupted"
  /\ UNCHANGED <<settings, profiles, pc, trace, result, future, browser,
                 opens, closes, stops, outcomes, sheet, stats, submitted,
                 stats_lock, loaded, calls, attempt, api, driver, sink,
                 starts>>

\* Positions whose driver code runs inside a try block with a bare
\* `except:`: get_discord_username, _check_channel_access and the checks
\* after the send.
SwallowPcs ==
  {"s1", "s2", "s3_check", "s3_recheck", "s4"}

\* Ctrl+C in sequential mode while the driver is inside a try block with a
\* bare `except:`: the KeyboardInterrupt is caught there and is gone.
InterruptSwallowed(i) ==
  /\ MayInterrupt
  /\ ~UseThreading
  /\ pc[i] \in SwallowPcs
  /\ main' = Interrupted(main)
  /\ UNCHANGED <<settings, profiles, pc, trace, result, future, browser,
                 opens, closes, stops, outcomes, sheet, stats, submitted,
                 run, stats_lock, loaded, calls, attempt, api, driver, sink,
                 starts>>

\* Ctrl+C in sequential mode while profile i is being processed.  Before
\* _process_profile is entered the KeyboardInterrupt leaves the loop at
\* once (a held statistics lock is released by its `with`); inside, the
\* finally blocks run on its way out; inside the outer finally the stop
\* request is made or not, depending on where the interrupt falls.
InterruptPipeline(i) ==
  /\ MayInterrupt
  /\ ~UseThreading
  /\ pc[i] \in WorkerPcs
  /\ main' = Interrupted(main)
  /\ CASE pc[i] \in {"total", "total_store", "inprog"} ->
            /\ pc' = [pc EXCEPT ![i] = "interrupted"]
            /\ run' = "interrupted"
            /\ stats_lock' = 0
            /\ loaded' = [loaded EXCEPT ![i] = <<>>]
            /\ UNCHANGED <<result, closes, stops, trace, browser, attempt>>
       [] pc[i] \in {"image", "start", "connect"} \cup StagePcs ->
            /\ Leave(i, Propagating, browser[i])
            /\ attempt' = [attempt EXCEPT ![i] = 0]
            /\ UNCHANGED <<run, stats_lock, loaded, stops, trace, browser>>
       [] pc[i] = "stop" ->
            /\ \E requested \in BOOLEAN :
                 stops' = [stops EXCEPT ![i] =
                             IF requested
                               THEN StopRequests(@, profiles[i].profile_id)
                               ELSE @]
            /\ pc' = [pc EXCEPT ![i] = "interrupted"]
            /\ run' = "interrupted"
            /\ result' = [result EXCEPT ![i] = NoResult]
            /\ trace' = [trace EXCEPT ![i] = <<>>]
            /\ browser' = [browser EXCEPT ![i] = FALSE]
            /\ UNCHANGED <<closes, stats_lock, loaded, attempt>>
  /\ UNCHANGED <<settings, profiles, future, opens, outcomes, sheet, stats,
                 submitted, calls, api, driver, sink, starts>>

\* The executor's shutdown(wait=True) and the interpreter's exit wait for
\* the pool: no thread is inside a pipeline and no submitted task is
\* left in the queue.
PoolIdle ==
  \A j \in Profiles :
    /\ pc[j] \notin WorkerPcs
    /\ (UseThreading /\ j <= submitted) => pc[j] # "pending"

\* main(): manager.run() returned (return 0), or left with an exception
\* (`except Exception`: return 1) or a KeyboardInterrupt (return 130).
ExitMain ==
  /\ main.pc = "run"
  /\ run # "running"
  /\ PoolIdle
  /\ main' = Exited([main EXCEPT !.fatal = (run = "aborted")],
                    CASE run = "completed"   -> 0
                      [] run = "aborted"     -> 1
                      [] run = "interrupted" -> 130)
  /\ UNCHANGED <<settings, profiles, pc, trace, result, future, browser,
                 opens, closes, stops, outcomes, sheet, stats, submitted,
                 run, stats_lock, loaded, calls, attempt, api, driver, sink,
                 starts>>

Next ==
  \/ SetupMain
  \/ ConfirmImages
  \/ ConfirmStart
  \/ InterruptSetup
  \/ InterruptPrompt
  \/ InterruptCollector
  \/ InterruptLoop
  \/ ExitMain
  \/ Submit
  \/ Complete
  \/ \E i \in Profiles :
       \/ ReadProfile(i)
       \/ CountTotal(i)
       \/ StoreTotal(i)
       \/ MarkInProgress(i)
       \/ FindImage(i)
       \/ StartProfile(i)
       \/ Connect(i)
       \/ Authenticate(i)
       \/ Verify(i)
       \/ NavGoto(i)
       \/ NavCheck(i)
       \/ NavWait(i)
       \/ NavRecheck(i)
       \/ NavFocus(i)
       \/ RetryUpload(i)
       \/ Upload(i)
       \/ StopProfile(i)
       \/ HandleResult(i)
       \/ HandleFailed(i)
       \/ Forward(i)
       \/ Delay(i)
       \/ CollectRaised(i)
       \/ InterruptSwallowed(i)
       \/ InterruptPipeline(i)

Spec ==
  Init /\ [][Next]_vars

(***************************************************************************)
(* start_profile on its own: one call per behaviour, for every answer of   *)
(* the provider and of the probe.                                          *)
(***************************************************************************)
\* Values under a key of the ws map; <<>> is an empty string.
EndpointTexts ==
  {<<>>, TxtEndpointWs, TxtEndpointHostPort, TxtEndpointHost, TxtEndpointHostName}

\* result.get("ws", {}): any of the keys may be missing.
WsMaps ==
  UNION {[S -> EndpointTexts] : S \in SUBSET WsKeys}

\* data.get("data", {}) when it is empty or missing.
EmptyData ==
  [empty |-> TRUE, ws |-> <<>>, debug_port |-> <<>>]

StartData ==
  {EmptyData} \cup
  {[empty |-> FALSE, ws |-> m, debug_port |-> p] :
     m \in WsMaps, p \in {<<>>, TxtDebugPort}}

\* How a request to the provider ends without a usable body: the request
\* raises, raise_for_status raises, response.json() raises, or the JSON
\* object has no "code".
FailureKinds ==
  {"transport_error", "http_error", "malformed", "json_no_code"}

\* What the start request comes back with: a failure, or a JSON body with
\* its code and data.
StartResponses ==
  {[kind |-> k, code |-> 0, data |-> EmptyData] : k \in FailureKinds} \cup
  {[kind |-> "json", code |-> c, data |-> d] : c \in {0, 1}, d \in StartData}

\* What the stop request comes back with.
StopResponses ==
  {[kind |-> k, code |-> 0, data |-> EmptyData] : k \in FailureKinds} \cup
  {[kind |-> "json", code |-> c, data |-> EmptyData] : c \in {0, 1}}

\* The statuses _process_profile returns.
Statuses ==
  {"SUCCESS", "NOT_AUTHENTICATED", "USERNAME_MISMATCH", "CHANNEL_UNAVAILABLE",
   "FAILED"}

\* Start responses every way of naming a profile is tried with: the
\* failures, the bodies without data, and one body with a playwright
\* endpoint.
PlainStartResponses ==
  {r \in StartResponses :
     \/ r.data.empty
     \/ /\ DOMAIN r.data.ws = {"playwright"}
        /\ r.data.ws["playwright"] = TxtEndpointWs
        /\ r.data.debug_port = <<>>}

\* The start_profile calls looked at: for a profile named by its id as
\* _process_profile names it, every start response and probe answer; for
\* every other way of naming a profile, and for none, the plain responses.
StartCalls ==
  {[op |-> "start", profile_id |-> <<"p", 1>>, serial_number |-> <<>>,
    response |-> r, probe |-> q, outcome |-> ""] :
     r \in StartResponses, q \in ProbeAnswers} \cup
  {[op |-> "start", profile_id |-> id, serial_number |-> sn,
    response |-> r, probe |-> [kind |-> "exception", url |-> <<>>],
    outcome |-> ""] :
     id \in ProfileIds, sn \in SerialNumbers, r \in PlainStartResponses}

\* The close_profile calls looked at, as the outer finally of
\* _process_profile and any other caller can make them: for every way of
\* naming a profile, every stop response, and every result the pipeline
\* had fixed before the finally ran.
StopCalls ==
  {[op |-> "stop", profile_id |-> id, serial_number |-> sn,
    response |-> r, probe |-> [kind |-> "exception", url |-> <<>>],
    outcome |-> st] :
     id \in ProfileIds, sn \in SerialNumbers, r \in StopResponses,
     st \in Statuses}

InitController ==
  /\ InitOrchestrator
  /\ settings.max_workers = 1
  /\ ~settings.use_google_sheets
  /\ ~settings.verify_username
  /\ \A i \in Profiles : profiles[i].profile_id # <<>>
  /\ api \in [call : StartCalls \cup StopCalls, requests : {<<>>},
               returned : {<<>>}, after : {<<>>}]
  /\ driver = NoStage
  /\ sink = NoSink

\* AdsPowerAPI.start_profile is called and returns.
StartProfileCall ==
  /\ api.call # <<>>
  /\ api.call.op = "start"
  /\ api.returned = <<>>
  /\ api' = [api EXCEPT !.requests = StartRequests(api.call),
                        !.returned = <<StartProfileReturn(api.call)>>]
  /\ UNCHANGED <<settings, profiles, pc, trace, result, future, browser,
                 opens, closes, stops, outcomes, sheet, stats, submitted,
                 run, stats_lock, loaded, calls, attempt, main, driver, sink,
                 starts>>

\* AdsPowerAPI.close_profile is called from the outer finally of a
\* pipeline that has fixed its result, and _process_profile returns.
CloseProfileCall ==
  /\ api.call # <<>>
  /\ api.call.op = "stop"
  /\ api.returned = <<>>
  /\ LET closed == CloseProfileReturn(api.call.response)
     IN  api' = [api EXCEPT
                   !.requests = CloseRequests(api.call),
                   !.returned = <<[success |-> closed, ws_endpoint |-> <<>>,
                                   selected |-> <<>>]>>,
                   !.after = <<ReturnAfterStop(Res(api.call.outcome, <<>>),
                                               closed).status>>]
  /\ UNCHANGED <<settings, profiles, pc, trace, result, future, browser,
                 opens, closes, stops, outcomes, sheet, stats, submitted,
                 run, stats_lock, loaded, calls, attempt, main, driver, sink,
                 starts>>

NextController ==
  \/ StartProfileCall
  \/ CloseProfileCall

SpecController ==
  InitController /\ [][NextController]_vars

(***************************************************************************)
(* The driver stages on their own: a call of check_authentication,         *)
(* verify_username or upload_and_send_image is drawn, returns, and step    *)
(* 1, 2 or 4 of _process_profile decides on what it returned.              *)
(***************************************************************************)
\* Usernames a roster can carry and a page can show.
VerifyNames ==
  {TxtAlice, TxtAliceDev, TxtAliceDevOnline, TxtBob,
   <<"A","L","I","C","E">>, <<" ","a","l"," ">>, <<"a","l"," ","#","1">>,
   <<"#","1">>, <<" ">>}

VerifyPages ==
  DetectedPages \cup
  {[panel |-> t, area |-> <<>>] : t \in VerifyNames} \cup
  {[panel |-> <<>>, area |-> t] : t \in VerifyNames}

\* A username that config.yaml gives as a number: the text of the number.
NumericUsername ==
  <<"4","2">>

AuthCalls ==
  [op : {"check_authentication"}, in : AuthInputs]

\* is_str: the expected username is a str (always so for a sheet roster).
VerifyCalls ==
  [op : {"verify_username"},
   in : [expected_username : VerifyNames \cup {<<>>}, is_str : {TRUE},
         page : VerifyPages]
        \cup [expected_username : {NumericUsername}, is_str : {FALSE},
               page : VerifyPages]]

UploadCalls ==
  [op : {"upload_and_send_image"}, in : UploadInputs]

AccessCalls ==
  [op : {"check_channel_access"}, in : AccessInputs]

FindCalls ==
  [op : {"find_user_message_with_image"}, in : MessageInputs]

InitDriver ==
  /\ InitOrchestrator
  /\ settings.max_workers = 1
  /\ ~settings.use_google_sheets
  /\ ~settings.verify_username
  /\ \A i \in Profiles : profiles[i].profile_id # <<>>
  /\ api = NoCall
  /\ driver \in [call : AuthCalls \cup VerifyCalls \cup UploadCalls
                           \cup AccessCalls \cup FindCalls,
                  pc : {"called"}, log : {<<>>}, returned : {<<>>},
                  result : {<<>>}]
  /\ sink = NoSink

\* Step 1 of _process_profile: discord.check_authentication() returns.
CheckAuthenticationCall ==
  /\ driver.pc = "called"
  /\ driver.call.op = "check_authentication"
  /\ LET r == CheckAuthentication(driver.call.in)
     IN  driver' = [driver EXCEPT !.pc = "returned", !.returned = <<r>>,
                                  !.result = <<AuthResult(r)>>]
  /\ UNCHANGED <<settings, profiles, pc, trace, result, future, browser,
                 opens, closes, stops, outcomes, sheet, stats, submitted,
                 run, stats_lock, loaded, calls, attempt, main, api, sink,
                 starts>>

\* Step 2 of _process_profile: discord.verify_username(expected_username)
\* returns; .strip() of a username that is not a str raises inside the try.
VerifyUsernameCall ==
  /\ driver.pc = "called"
  /\ driver.call.op = "verify_username"
  /\ LET in == driver.call.in
         r == IF in.is_str THEN VerifyUsername(in.expected_username, in.page)
                           ELSE VerifyExcept(TxtNoStrip)
     IN  driver' = [driver EXCEPT
                      !.pc = "returned", !.returned = <<r>>,
                      !.result = <<VerifyResult(in.expected_username, r)>>]
  /\ UNCHANGED <<settings, profiles, pc, trace, result, future, browser,
                 opens, closes, stops, outcomes, sheet, stats, submitted,
                 run, stats_lock, loaded, calls, attempt, main, api, sink,
                 starts>>

\* Step 4 of _process_profile: discord.upload_and_send_image(image_path)
\* returns.
UploadAndSendImageCall ==
  /\ driver.pc = "called"
  /\ driver.call.op = "upload_and_send_image"
  /\ LET u == UploadAndSendImage(driver.call.in)
     IN  driver' = [driver EXCEPT !.pc = "returned", !.log = u.log,
                                  !.returned = <<u.returned>>,
                                  !.result = <<UploadResult(u.returned)>>]
  /\ UNCHANGED <<settings, profiles, pc, trace, result, future, browser,
                 opens, closes, stops, outcomes, sheet, stats, submitted,
                 run, stats_lock, loaded, calls, attempt, main, api, sink,
                 starts>>

\* navigate_to_channel: the first self._check_channel_access() returns; a
\* denial ends the stage and step 3.
CheckChannelAccessCall ==
  /\ driver.pc = "called"
  /\ driver.call.op = "check_channel_access"
  /\ LET a == CheckChannelAccessSteps(driver.call.in)
     IN  driver' = [driver EXCEPT !.pc = "returned", !.log = a.log,
                                  !.returned = <<a.returned>>,
                                  !.result = <<NavResult(a.returned)>>]
  /\ UNCHANGED <<settings, profiles, pc, trace, result, future, browser,
                 opens, closes, stops, outcomes, sheet, stats, submitted,
                 run, stats_lock, loaded, calls, attempt, main, api, sink,
                 starts>>

\* _verify_message_sent: self._find_user_message_with_image(chat_container,
\* current_user) returns; found verifies the send.
FindUserMessageWithImageCall ==
  /\ driver.pc = "called"
  /\ driver.call.op = "find_user_message_with_image"
  /\ LET f == FindUserMessageWithImage(driver.call.in)
     IN  driver' = [driver EXCEPT !.pc = "returned", !.log = f.log,
                                  !.returned = <<f.returned>>,
                                  !.result = <<NoResult>>]
  /\ UNCHANGED <<settings, profiles, pc, trace, result, future, browser,
                 opens, closes, stops, outcomes, sheet, stats, submitted,
                 run, stats_lock, loaded, calls, attempt, main, api, sink,
                 starts>>

NextDriver ==
  \/ FindUserMessageWithImageCall
  \/ CheckAuthenticationCall
  \/ VerifyUsernameCall
  \/ UploadAndSendImageCall
  \/ CheckChannelAccessCall

SpecDriver ==
  InitDriver /\ [][NextDriver]_vars

(***************************************************************************)
(* GoogleSheetsManager.update_status step by step: the calls of a threaded *)
(* run, each taking the lock, writing its cells one by one and leaving.    *)
(***************************************************************************)
\* The cells an update_status call writes, in order.
CellsOf(options) ==
  <<"status">>
    \o (IF options.log_timestamp THEN <<"timestamp">> ELSE <<>>)
    \o (IF options.log_message THEN <<"message">> ELSE <<>>)

\* An update that does not wait for the lock.
SinkLockIgnored ==
  TRUE

\* `with self._lock:` can be entered.
SinkLockFree ==
  sink.lock = <<>>

\* The collecting thread is inside _handle_result for some profile.
CollectorBusy ==
  \E i \in Profiles : sink.at[<<i, "final">>].pc \in {"wait", "locked", "leaving"}

InitSink ==
  /\ InitOrchestrator
  /\ settings.max_workers = MaxWorkers
  /\ settings.use_google_sheets
  /\ settings.verify_username
  /\ settings.gs_verify_username = <<TRUE>>
  /\ \A i \in Profiles : profiles[i].profile_id = <<"p", i>>
  /\ api = NoCall
  /\ driver = NoStage
  /\ sink \in [options : [log_timestamp : BOOLEAN, log_message : BOOLEAN],
                lock : {<<>>},
                at : {[u \in Updates |-> [pc |-> "idle", written |-> 0]]},
                log : {<<>>}]

\* update_status is called: set_in_progress by the pool thread that took
\* the profile, the result's status by the collecting thread once the
\* profile's future is done, one result at a time.
UpdateStatusCall(u) ==
  /\ sink.at[u].pc = "idle"
  /\ u[2] = "final" =>
       /\ sink.at[<<u[1], "in_progress">>].pc = "done"
       /\ ~CollectorBusy
  /\ sink' = [sink EXCEPT !.at[u].pc = "wait"]
  /\ UNCHANGED <<settings, profiles, pc, trace, result, future, browser,
                 opens, closes, stops, outcomes, sheet, stats, submitted,
                 run, stats_lock, loaded, calls, attempt, main, api, driver,
                 starts>>

\* update_status: `with self._lock:` is entered.
UpdateStatusEnter(u) ==
  /\ sink.at[u].pc = "wait"
  /\ SinkLockFree
  /\ sink' = [sink EXCEPT !.lock = <<u>>, !.at[u].pc = "locked"]
  /\ UNCHANGED <<settings, profiles, pc, trace, result, future, browser,
                 opens, closes, stops, outcomes, sheet, stats, submitted,
                 run, stats_lock, loaded, calls, attempt, main, api, driver,
                 starts>>

\* update_status: the next cell is written (update_acell), or the write
\* raises and the except clause ends the update.
UpdateStatusWrite(u) ==
  /\ sink.at[u].pc = "locked"
  /\ \E raises \in BOOLEAN :
       LET cells == CellsOf(sink.options)
           k == sink.at[u].written + 1
       IN  IF raises
             THEN sink' = [sink EXCEPT !.at[u].pc = "leaving"]
             ELSE sink' = [sink EXCEPT
                             !.log = Append(@, [update |-> u, cell |-> cells[k]]),
                             !.at[u] = [pc |-> IF k = Len(cells)
                                                 THEN "leaving" ELSE "locked",
                                        written |-> k]]
  /\ UNCHANGED <<settings, profiles, pc, trace, result, future, browser,
                 opens, closes, stops, outcomes, sheet, stats, submitted,
                 run, stats_lock, loaded, calls, attempt, main, api, driver,
                 starts>>

\* update_status: the with block is left and the lock released.
UpdateStatusLeave(u) ==
  /\ sink.at[u].pc = "leaving"
  /\ sink' = [sink EXCEPT !.lock = IF @ = <<u>> THEN <<>> ELSE @,
                          !.at[u].pc = "done"]
  /\ UNCHANGED <<settings, profiles, pc, trace, result, future, browser,
                 opens, closes, stops, outcomes, sheet, stats, submitted,
                 run, stats_lock, loaded, calls, attempt, main, api, driver,
                 starts>>

NextSink ==
  \E u \in Updates :
    \/ UpdateStatusCall(u)
    \/ UpdateStatusEnter(u)
    \/ UpdateStatusWrite(u)
    \/ UpdateStatusLeave(u)

SpecSink ==
  InitSink /\ [][NextSink]_vars


(***************************************************************************)
(* Properties.                                                             *)
(***************************************************************************)
\* Positions of a profile whose _process_profile call has returned.
ReturnedPcs ==
  {"returned", "h_failed", "h_forward", "delay", "finished"}

\* No thread has anything left to do: the run is over and the pool is idle.
Quiescent ==
  /\ run # "running"
  /\ PoolIdle

\* The returns of the four stages among the entries of a profile's trace.
StageCalls(i) ==
  LET IsStage(e) == e.stage \in {"auth", "verify", "nav", "upload"}
  IN  SelectSeq(trace[i], IsStage)

\* Position of a stage in the pipeline.
StageRank(stage) ==
  CASE stage \in {"auth", "s1"}     -> 1
    [] stage \in {"verify", "s2"}   -> 2
    [] stage \in {"upload", "s4"}   -> 4
    [] OTHER                        -> 3

\* A denial signal was detected by one of the access checks of the profile.
DenialSeen(i) ==
  \E k \in 1..Len(trace[i]) : trace[i][k] = [stage |-> "nav_check", ok |-> FALSE]

\* C1: every profile whose _process_profile call returned has had exactly
\* one stop request issued for it and, once nothing is left to run, exactly
\* one Outcome recorded; never more than one of either.
C1_OneOutcomeOneStop ==
  \A i \in Profiles :
    /\ Len(outcomes[i]) <= 1
    /\ stops[i] <= 1
    /\ pc[i] \in ReturnedPcs => stops[i] = 1
    /\ (Quiescent /\ ~main.interrupted /\ pc[i] \in ReturnedPcs) =>
         Len(outcomes[i]) = 1

C3_StagesInOrder ==
  \A i \in Profiles :
    LET T == StageCalls(i)
    IN  /\ T # <<>> => T[1].stage = "auth"
        /\ \A k \in 1..Len(T) :
             /\ k < Len(T) =>
                  /\ T[k].ok
                  /\ StageRank(T[k].stage) < StageRank(T[k + 1].stage)
             /\ T[k].stage = "upload" => k > 1 /\ T[k - 1].stage = "nav"
        /\ pc[i] \in StagePcs =>
             \A k \in 1..Len(T) :
               T[k].ok /\ StageRank(T[k].stage) < StageRank(pc[i])
        /\ pc[i] \in StagePcs \ {"s1"} => T # <<>>
        /\ (T # <<>> /\ ~T[Len(T)].ok) =>
             /\ pc[i] = "stop"
             /\ result[i].status \notin {"NONE", "SUCCESS"}

\* C3 witness: a pipeline that went through all four stages.
C3_Witness ==
  \E i \in Profiles :
    /\ pc[i] = "stop"
    /\ Len(StageCalls(i)) = 4
    /\ StageCalls(i)[4] = [stage |-> "upload", ok |-> TRUE]

\* C4: when the pipeline is left, a failed authentication stage gives
\* NOT_AUTHENTICATED, a failed identity stage gives USERNAME_MISMATCH with
\* the expected and the detected username, a failed upload stage gives
\* FAILED, a caught exception gives FAILED with the exception's text in the
\* message, and SUCCESS is given only after an upload that returned success
\* with no failed call before it.
C4_OutcomeByStage ==
  \A i \in Profiles :
    (pc[i] = "stop" /\ trace[i] # <<>>) =>
      LET last == trace[i][Len(trace[i])]
          r == result[i]
      IN  /\ (last.stage = "auth" /\ ~last.ok) => r.status = "NOT_AUTHENTICATED"
          /\ (last.stage = "verify" /\ ~last.ok) =>
               /\ r.status = "USERNAME_MISMATCH"
               /\ r.expected_username = profiles[i].username
               /\ r.expected_username # <<>>
               /\ \E page \in DetectedPages :
                    /\ GetDiscordUsername(page)[1]
                    /\ r.actual_username = GetDiscordUsername(page)[2]
               /\ r.actual_username # r.expected_username
          /\ (last.stage = "upload" /\ ~last.ok) => r.status = "FAILED"
          /\ last.stage = "exception" =>
               /\ r.status = "FAILED"
               /\ Contains(r.message, TxtErrConnectionReset)
          /\ r.status = "SUCCESS" =>
               /\ last = [stage |-> "upload", ok |-> TRUE]
               /\ \A k \in 1..Len(StageCalls(i)) : StageCalls(i)[k].ok

\* C4 witness: a pipeline left on an identity mismatch.
C4_Witness ==
  \E i \in Profiles :
    /\ pc[i] = "stop"
    /\ trace[i] # <<>>
    /\ trace[i][Len(trace[i])] = [stage |-> "verify", ok |-> FALSE]
    /\ result[i].actual_username = TxtBob

\* C5: a navigation stage that failed without any access check having
\* detected a denial signal gives FAILED.
C5_NoDenialIsFailed ==
  \A i \in Profiles :
    ( /\ pc[i] = "stop"
      /\ trace[i] # <<>>
      /\ trace[i][Len(trace[i])] = [stage |-> "nav", ok |-> FALSE]
      /\ ~DenialSeen(i) )
    => result[i].status = "FAILED"

\* C6: the wait for a chat marker comes right after an access check that
\* found no denial, and once an access check (the first one or the recheck)
\* detected a denial the navigation stage has failed and the result is
\* CHANNEL_UNAVAILABLE.
C6_DenialFirst ==
  \A i \in Profiles :
    /\ \A k \in 1..Len(trace[i]) :
         trace[i][k].stage = "nav_wait" =>
           k > 1 /\ trace[i][k - 1] = [stage |-> "nav_check", ok |-> TRUE]
    /\ pc[i] = "s3_wait" =>
         trace[i][Len(trace[i])] = [stage |-> "nav_check", ok |-> TRUE]
    /\ DenialSeen(i) =>
         /\ pc[i] = "stop"
         /\ trace[i][Len(trace[i])] = [stage |-> "nav", ok |-> FALSE]
         /\ result[i].status = "CHANNEL_UNAVAILABLE"

\* C6 witness: no chat marker was found and the recheck saw the redirect to
\* the home page.
C6_Witness ==
  \E i \in Profiles :
    /\ pc[i] = "stop"
    /\ \E k \in 1..Len(trace[i]) : trace[i][k] = [stage |-> "nav_wait", ok |-> FALSE]
    /\ DenialSeen(i)
    /\ result[i].message = TxtRedirectedToDMs

C8_ThreadedAllReported ==
  (UseThreading /\ Quiescent /\ ~main.interrupted) =>
    /\ \A i \in Profiles : Len(outcomes[i]) = 1
    /\ stats.total = NumProfiles
    /\ stats.successful + stats.failed = NumProfiles

\* C9: no counter is negative and successful + failed never exceeds total.
C9_CountersBounded ==
  /\ \A k \in DOMAIN stats : stats[k] >= 0
  /\ stats.successful + stats.failed <= stats.total

\* C9 witness: a threaded run in which one worker raised while another
\* profile's sub-classified failure is being counted.
C9_Witness ==
  /\ UseThreading
  /\ \E i, j \in Profiles :
       /\ pc[i] = "raised"
       /\ pc[j] = "h_failed"
  /\ stats.failed < stats.total

\* C10: no run is aborted by the error of one profile, and a run that is
\* over has recorded an outcome for every profile of the roster.
C10_RunNeverAborted ==
  /\ run # "aborted"
  /\ run = "completed" => \A i \in Profiles : Len(outcomes[i]) = 1

C13_NoLostUpdate ==
  /\ \A i \in Profiles : loaded[i] # <<>> <=> stats_lock = i
  /\ \A key \in DOMAIN stats : stats[key] = calls[key]

\* C13 witness: in a threaded run one pool thread is inside `+=` holding
\* the lock while another is about to count its own profile.
C13_Witness ==
  /\ UseThreading
  /\ \E i, j \in Profiles : pc[i] = "total_store" /\ pc[j] = "total"

\* C12: for a profile with a sink row, the row reads "In Progress" by the
\* time the start request has been answered; a final status is on the row
\* only once the pipeline has returned and its Outcome is counted; and a
\* row whose profile is finished holds a final status, never "Pending" or
\* "In Progress".
C12_RowMarkedThenFinal ==
  \A i \in Profiles :
    SinkRow(i) =>
      /\ pc[i] \in {"connect"} \cup StagePcs => sheet[i] = "In Progress"
      /\ sheet[i] \notin {"Pending", "In Progress"} =>
           pc[i] \in {"delay", "finished"} /\ Len(outcomes[i]) = 1
      /\ pc[i] \in {"delay", "finished"} =>
           sheet[i] \notin {"Pending", "In Progress"}

\* Positions of a profile between the answer to its start request and the
\* end of its last driver stage: its thread holds a started session.
StartedPcs ==
  {"connect"} \cup StagePcs

\* Two roster entries name the same remote profile.
SameRemoteProfile(i, j) ==
  /\ i # j
  /\ profiles[i].profile_id # <<>>
  /\ profiles[i].profile_id = profiles[j].profile_id

\* C14: in threaded mode no two workers hold a started session for the same
\* remote profile id at once, and no stop request is issued for a remote
\* profile while another worker's pipeline for the same id is running.
C14_NoSharedRemoteProfile ==
  /\ [](UseThreading =>
          \A i, j \in Profiles :
            SameRemoteProfile(i, j) =>
              ~(pc[i] \in StartedPcs /\ pc[j] \in StartedPcs))
  /\ [][UseThreading =>
          \A i, j \in Profiles :
            (stops'[i] > stops[i] /\ SameRemoteProfile(i, j)) =>
              pc[j] \notin WorkerPcs]_vars

\* The run under weak fairness: as long as some thread has a step to take,
\* one is taken; every blocking call returns.
LiveSpec ==
  Spec /\ WF_vars(Next)

\* A profile handed to the pool, or reached by the sequential loop.
Submitted(i) ==
  IF UseThreading THEN i <= submitted ELSE pc[i] # "pending"

\* C11: under weak fairness every execution that no user interrupt hits
\* comes to rest with main() returned and no thread left running, and from
\* then on every submitted profile has exactly one recorded Outcome.
C11_TerminatesAllRecorded ==
  ([]~main.interrupted) =>
    <>[](/\ main.pc = "exited"
         /\ PoolIdle
         /\ \A i \in Profiles : Submitted(i) => Len(outcomes[i]) = 1)

\* The start_profile call looked at has returned.
Returned ==
  /\ api.returned # <<>>
  /\ api.call.op = "start"

\* The probe did not yield a WebSocket URL: it raised, answered with another
\* status than 200, or its body lacks webSocketDebuggerUrl.
ProbeFailed(probe) ==
  ~(probe.kind = "ok" /\ probe.url # <<>>)

\* The text is host:port, a host without a colon and a decimal port.
IsHostPort(text) ==
  /\ HasColon(text)
  /\ ~HasScheme(text)
  /\ LastColon(text) > 1
  /\ ~HasColon(SubSeq(text, 1, LastColon(text) - 1))
  /\ IsInt(SubSeq(text, LastColon(text) + 1, Len(text)))

\* The keys of the ws map that hold a non-empty value, by priority rank.
PriorityOrder ==
  <<"playwright", "selenium", "puppeteer", "webdriver">>

UsableRanks(ws) ==
  {k \in 1..Len(PriorityOrder) : Get(ws, PriorityOrder[k]) # <<>>}

\* The start request was answered with a JSON body that has code 0 and
\* non-empty data.
Answered(call) ==
  /\ Identified(call)
  /\ call.response.kind = "json"
  /\ call.response.code = 0
  /\ ~call.response.data.empty

\* C18: endpoint resolution by start.  For a selected endpoint host:port
\* and a failing probe the returned endpoint is "http://host:port"; when the
\* probe names a webSocketDebuggerUrl the returned endpoint is that value;
\* whatever the probe does, a start that was answered with a usable
\* endpoint succeeds; and a start whose ws map is empty or holds no usable
\* endpoint fails.
C18_EndpointResolution ==
  Returned =>
    LET call == api.call
        r    == api.returned[1]
        ws   == call.response.data.ws
    IN  /\ (r.success /\ IsHostPort(r.selected) /\ ProbeFailed(call.probe))
             => r.ws_endpoint = TxtHttpScheme \o r.selected
        /\ (r.success /\ IsHostPort(r.selected) /\ ~ProbeFailed(call.probe))
             => r.ws_endpoint = call.probe.url
        /\ (Answered(call) /\ UsableRanks(ws) # {}) => r.success
        /\ (DOMAIN ws = {} \/ UsableRanks(ws) = {}) => ~r.success

\* C18 witness: a start that selected "h:90", whose probe raised, and that
\* returned "http://h:90".
C18_Witness ==
  /\ Returned
  /\ api.call.probe.kind = "exception"
  /\ api.returned[1].success
  /\ api.returned[1].selected = TxtEndpointHostPort
  /\ api.returned[1].ws_endpoint = <<"h","t","t","p",":","/","/","h",":","9","0">>

\* C19: whenever start succeeds with a selected endpoint that has no URL
\* scheme, the endpoint it returns carries one of the schemes ws://, wss://,
\* http://, https://.
C19_SchemeAlways ==
  Returned =>
    LET r == api.returned[1]
    IN  (r.success /\ ~HasScheme(r.selected)) => HasScheme(r.ws_endpoint)

\* C20: a start that succeeds has selected the value of the first key, in
\* the order playwright, selenium, puppeteer, webdriver, whose value is not
\* empty; a start that was answered fails only if no key has a non-empty
\* value, or the code is not 0, or the data is empty.
C20_PriorityOrder ==
  Returned =>
    LET call == api.call
        r    == api.returned[1]
        ws   == call.response.data.ws
        U    == UsableRanks(ws)
    IN  /\ r.success =>
             /\ U # {}
             /\ \E k \in U :
                  /\ \A j \in U : k <= j
                  /\ r.selected = ws[PriorityOrder[k]]
        /\ (Identified(call) /\ call.response.kind = "json" /\ ~r.success) =>
             \/ U = {}
             \/ call.response.code # 0
             \/ call.response.data.empty

\* C20 witness: no playwright key, an empty selenium value, different
\* puppeteer and webdriver values, and the puppeteer value selected.
C20_Witness ==
  /\ Returned
  /\ "playwright" \notin DOMAIN api.call.response.data.ws
  /\ Get(api.call.response.data.ws, "selenium") = <<>>
  /\ Get(api.call.response.data.ws, "puppeteer") = TxtEndpointWs
  /\ Get(api.call.response.data.ws, "webdriver") = TxtEndpointHost
  /\ api.returned[1].success
  /\ api.returned[1].selected = TxtEndpointWs

\* C16: once a user interrupt has been delivered during a run, no profile
\* that had not begun is started, the Outcomes already recorded stay as
\* they are, and the process exits with code 130.
C16_InterruptAborts ==
  /\ [][(main.interrupted /\ main.interrupted_in = "run") =>
          \A i \in Profiles :
            /\ pc[i] = "pending" => pc'[i] = "pending"
            /\ outcomes[i] # <<>> => outcomes'[i] = outcomes[i]]_vars
  /\ []((main.interrupted /\ main.interrupted_in = "run" /\ main.pc = "exited")
          => main.exit_code = <<130>>)

\* C17: the exit code is 0 exactly when the run completed or the user
\* declined the confirmation, 1 after a fatal setup error or an uncaught
\* error, and 130 after a user interrupt in whichever phase of main().
C17_ExitCodes ==
  main.pc = "exited" =>
    /\ main.exit_code \in {<<0>>, <<1>>, <<130>>}
    /\ main.exit_code = <<0>> <=>
         (~main.interrupted /\ ~main.fatal /\ (main.declined \/ run = "completed"))
    /\ main.exit_code = <<1>> <=> (~main.interrupted /\ main.fatal)
    /\ main.exit_code = <<130>> <=> main.interrupted

\* The parameters of a request that name a profile.
IdParams(request) ==
  DOMAIN request.params \cap {"serial_number", "user_id"}

\* C21: a request of the controller names the profile by exactly one
\* parameter: serial_number, holding the serial number, whenever a serial
\* number is given (also when an id is given too), and user_id, holding the
\* id, otherwise; a start call given neither fails and sends no request.
C21_OneIdentifier ==
  api.returned # <<>> =>
    LET call == api.call
        reqs == api.requests
    IN  /\ (call.op = "start" /\ ~Identified(call)) =>
             /\ reqs = <<>>
             /\ ~api.returned[1].success
        /\ Identified(call) =>
             /\ Len(reqs) = 1
             /\ Cardinality(IdParams(reqs[1])) = 1
             /\ call.serial_number # <<>> =>
                  /\ IdParams(reqs[1]) = {"serial_number"}
                  /\ reqs[1].params["serial_number"] = Str(call.serial_number[1])
             /\ call.serial_number = <<>> =>
                  /\ IdParams(reqs[1]) = {"user_id"}
                  /\ reqs[1].params["user_id"] = call.profile_id

\* C21 witness: a start call given both the id and the serial number 27,
\* whose request carries serial_number "27" and no user_id.
C21_Witness ==
  /\ api.returned # <<>>
  /\ api.call.op = "start"
  /\ api.call.profile_id = <<"p", 1>>
  /\ api.call.serial_number = <<27>>
  /\ Len(api.requests) = 1
  /\ "user_id" \notin DOMAIN api.requests[1].params
  /\ api.requests[1].params["serial_number"] = <<"2", "7">>
  /\ api.requests[1].params["open_tabs"] = <<"0">>

\* C22: close_profile returns a Boolean whatever the stop request comes
\* back with: false after a transport failure, an HTTP error status, a body
\* that is not JSON or has no code, and a code other than 0, true only for
\* code 0; and the result _process_profile returns after its outer finally
\* is the one fixed before it, also when the stop failed.
C22_StopBestEffort ==
  (api.returned # <<>> /\ api.call.op = "stop") =>
    LET response == api.call.response
        closed   == api.returned[1].success
    IN  /\ closed \in BOOLEAN
        /\ response.kind \in FailureKinds => ~closed
        /\ (response.kind = "json" /\ response.code # 0) => ~closed
        /\ closed <=> (response.kind = "json" /\ response.code = 0)
        /\ Len(api.requests) = 1
        /\ api.after = <<api.call.outcome>>

\* C22 witness: a stop whose request was answered with an HTTP error status
\* returned false, and the pipeline's SUCCESS was returned all the same.
C22_Witness ==
  /\ api.returned # <<>>
  /\ api.call.op = "stop"
  /\ api.call.response.kind = "http_error"
  /\ ~api.returned[1].success
  /\ api.call.outcome = "SUCCESS"
  /\ api.after = <<"SUCCESS">>

\* check_authentication has returned in the driver-stage specification.
AuthReturned ==
  driver.pc = "returned" /\ driver.call.op = "check_authentication"

\* C28: check_authentication reports authenticated exactly when the page
\* loaded, the URL holds neither the login nor the register path, no login
\* form was found and the authenticated shell was found; a login form
\* decides the answer even when the shell is found as well, and step 1
\* goes on to the next stage only for an authenticated answer.
C28_AuthDecision ==
  AuthReturned =>
    LET in == driver.call.in
        r == driver.returned[1]
        clean_url == /\ ~Contains(in.url, KwLoginPath)
                     /\ ~Contains(in.url, KwRegisterPath)
    IN  /\ r[1] <=> (in.goto = "ok" /\ clean_url /\ ~in.login_form /\ in.shell)
        /\ (in.goto = "ok" /\ clean_url /\ in.login_form) =>
             r = <<FALSE, TxtLoginFormDetected>>
        /\ (in.goto = "ok" /\ clean_url /\ ~in.login_form /\ ~in.shell) =>
             r = <<FALSE, TxtAuthUnconfirmed>>
        /\ (driver.result[1] = NoResult) <=> r[1]
        /\ ~r[1] => driver.result[1].status = "NOT_AUTHENTICATED"

\* A page that shows both a login form and the authenticated shell was
\* checked and reported as not authenticated.
C28_Witness ==
  /\ AuthReturned
  /\ driver.call.in.goto = "ok"
  /\ driver.call.in.url = TxtUrlHome
  /\ driver.call.in.login_form
  /\ driver.call.in.shell
  /\ driver.returned[1] = <<FALSE, TxtLoginFormDetected>>

\* verify_username has returned in the driver-stage specification.
VerifyReturned ==
  driver.pc = "returned" /\ driver.call.op = "verify_username"

\* C23: for a non-empty expected username a and a non-empty detected
\* username b, verify_username reports a match exactly when, after lower
\* case, strip and the cut at the first '#', one of the two is a substring
\* of the other; the answer is the same with a and b exchanged; and
\* "alice" against "alice_dev#0001 | Online" matches, so that step 2 goes
\* on to navigation.
C23_VerifySymmetric ==
  (/\ VerifyReturned
   /\ driver.call.in.is_str
   /\ driver.call.in.expected_username # <<>>
   /\ GetDiscordUsername(driver.call.in.page)[1]
   /\ GetDiscordUsername(driver.call.in.page)[2] # <<>>) =>
    LET a == driver.call.in.expected_username
        b == GetDiscordUsername(driver.call.in.page)[2]
        r == driver.returned[1]
    IN  /\ r[1] <=> \/ Contains(CleanUsername(a), CleanUsername(b))
                    \/ Contains(CleanUsername(b), CleanUsername(a))
        /\ r[1] = VerifyAgainst(b, <<TRUE, a>>)[1]
        /\ (a = TxtAlice /\ b = TxtAliceDevOnline) =>
             r[1] /\ driver.result[1] = NoResult

\* "alice" was verified against the detected text "alice_dev#0001 | Online"
\* and step 2 did not return a result.
C23_Witness ==
  /\ VerifyReturned
  /\ driver.call.in.expected_username = TxtAlice
  /\ GetDiscordUsername(driver.call.in.page) = <<TRUE, TxtAliceDevOnline>>
  /\ driver.returned[1][1]
  /\ driver.result[1] = NoResult

\* C24: when no username can be extracted from the page, or verify_username
\* raises, the call answers True with no actual username and step 2 goes on;
\* step 2 returns USERNAME_MISMATCH only when a username was extracted and
\* neither cleaned username is a substring of the other.
C24_ExtractionFailureSkips ==
  VerifyReturned =>
    LET in == driver.call.in
        got == GetDiscordUsername(in.page)
        r == driver.returned[1]
        res == driver.result[1]
    IN  /\ (~in.is_str \/ ~got[1]) =>
             r[1] /\ r[2] = <<>> /\ res = NoResult
        /\ (res.status = "USERNAME_MISMATCH") <=> ~r[1]
        /\ r[1] <=> res = NoResult
        /\ ~r[1] =>
             /\ in.is_str
             /\ got[1]
             /\ res.actual_username = got[2]
             /\ ~Contains(CleanUsername(in.expected_username),
                          CleanUsername(got[2]))
             /\ ~Contains(CleanUsername(got[2]),
                          CleanUsername(in.expected_username))

\* "alice" was to be verified on a page that shows no username: the call
\* answered True ("skipped") and step 2 did not return a result.
C24_Witness ==
  /\ VerifyReturned
  /\ driver.call.in.expected_username = TxtAlice
  /\ ~GetDiscordUsername(driver.call.in.page)[1]
  /\ driver.returned[1] = <<TRUE, <<>>, TxtVerifySkippedUndetected>>
  /\ driver.result[1] = NoResult

\* upload_and_send_image has returned in the driver-stage specification.
UploadReturned ==
  driver.pc = "returned" /\ driver.call.op = "upload_and_send_image"

\* The positions of a page action in the log of a stage call.
Positions(log, e) ==
  {k \in DOMAIN log : log[k] = e}

\* The page actions that issue the send: a click on a send button or the
\* Enter key, made or raised.
SendActions ==
  {"click", "click_raises", "enter", "enter_raises"}

\* C30: once the file input is found, set_input_files is called at most
\* MaxRetries times and never again after a call that returned; the delay
\* is slept after a failed call only when another call follows, once
\* between every two calls; after MaxRetries failed calls the stage returns
\* "Failed to upload file: ..." and no send action was made.
C30_BoundedRetries ==
  (UploadReturned /\ driver.call.in.file_input) =>
    LET log == driver.log
        ok == Positions(log, "set_file")
        failed == Positions(log, "set_file_raises")
        sleeps == Positions(log, "sleep")
        calls_made == Cardinality(ok) + Cardinality(failed)
        returns == driver.call.in.set_file
    IN  /\ calls_made >= 1
        /\ calls_made <= MaxRetries
        /\ Cardinality(ok) <= 1
        /\ \A k \in ok : \A j \in ok \cup failed : j <= k
        /\ \A k \in 1..calls_made : returns[k] <=> (k = calls_made /\ ok # {})
        /\ \A k \in sleeps : /\ k - 1 \in failed
                             /\ k + 1 \in ok \cup failed
        /\ Cardinality(sleeps) = calls_made - 1
        /\ (Cardinality(failed) = MaxRetries) =>
             /\ driver.returned[1] =
                  <<FALSE, TxtFailedToUploadPrefix \o TxtErrConnectionReset>>
             /\ driver.result[1].status = "FAILED"
             /\ \A k \in DOMAIN log : log[k] \notin SendActions
        /\ (ok # {}) => \E k \in DOMAIN log : log[k] \in SendActions

\* Three calls of set_input_files raised, with a delay after the first and
\* the second only, and the stage returned the failure without sending.
C30_Witness ==
  /\ UploadReturned
  /\ driver.log = <<"find_input", "set_file_raises", "sleep",
                    "set_file_raises", "sleep", "set_file_raises">>
  /\ driver.returned[1][1] = FALSE

\* C25: when the file was set, the send was issued, neither poll round found
\* the message and no error signal was found, the result of step 4 is
\* SUCCESS and carries the message of the inconclusive delivery that
\* upload_and_send_image returned.
C25_InconclusiveSuccess ==
  (/\ UploadReturned
   /\ driver.call.in.file_input
   /\ \E k \in 1..MaxRetries : driver.call.in.set_file[k]
   /\ \E k \in DOMAIN driver.log : driver.log[k] \in {"click", "enter"}
   /\ driver.call.in.verified = "never"
   /\ ~driver.call.in.error) =>
    /\ driver.returned[1] = <<TRUE, TxtUploadNoErrors>>
    /\ driver.result[1].status = "SUCCESS"
    /\ driver.result[1].message = driver.returned[1][2]

\* C26: no call of human_like_click raises to upload_and_send_image, and
\* the page actions and the return of the stage are the ones it makes and
\* gives when every emulation step works.
C26_EmulationNeverPropagates ==
  UploadReturned =>
    LET in == driver.call.in
        smooth == UploadAndSendImage([in EXCEPT !.emulation = "ok"])
    IN  /\ \A k \in DOMAIN driver.log : driver.log[k] # "click_raises"
        /\ driver.log = smooth.log
        /\ driver.returned[1] = smooth.returned
        /\ driver.result[1] = UploadResult(smooth.returned)

\* The stages in the trace of a pipeline.
StagesOf(i) ==
  {trace[i][k].stage : k \in DOMAIN trace[i]}

\* C29: verify_username is called only for a profile with a non-empty
\* expected username while the toggle in effect is on - the google_sheets
\* toggle when the sheet is in use and sets one, the global toggle otherwise
\* - and every pipeline that reaches navigation for such a profile has
\* called it; for any other profile navigation follows authentication
\* directly and the result is never USERNAME_MISMATCH.
C29_VerifyGate ==
  \A i \in Profiles :
    pc[i] = "stop" =>
      LET toggle == IF settings.use_google_sheets
                         /\ settings.gs_verify_username # <<>>
                      THEN settings.gs_verify_username = <<TRUE>>
                      ELSE settings.verify_username
          wanted == profiles[i].username # <<>> /\ toggle
      IN  /\ "verify" \in StagesOf(i) => wanted
          /\ "nav" \in StagesOf(i) => ("verify" \in StagesOf(i) <=> wanted)
          /\ ~wanted =>
               /\ result[i].status # "USERNAME_MISMATCH"
               /\ \A k \in DOMAIN StageCalls(i) :
                    (StageCalls(i)[k].stage = "nav") =>
                      /\ k = 2
                      /\ StageCalls(i)[1] = [stage |-> "auth", ok |-> TRUE]

\* With the sheet in use, the global toggle on and the sheet toggle off, a
\* profile with an expected username went from authentication straight to
\* navigation.
C29_Witness ==
  \E i \in Profiles :
    /\ pc[i] = "stop"
    /\ settings.use_google_sheets
    /\ settings.verify_username
    /\ settings.gs_verify_username = <<FALSE>>
    /\ profiles[i].username # <<>>
    /\ Len(StageCalls(i)) >= 2
    /\ StageCalls(i)[1] = [stage |-> "auth", ok |-> TRUE]
    /\ StageCalls(i)[2].stage = "nav"

\* An update is between entering and leaving the with block.
InUpdate(u) ==
  sink.at[u].pc \in {"locked", "leaving"}

\* C27: the cells of one update_status call are written while it holds the
\* lock, at most one call is inside the with block at a time, and in the
\* order of all cell writes no write of another call comes between two
\* writes of the same call.
C27_WritesSerialized ==
  /\ \A u, v \in Updates : (InUpdate(u) /\ InUpdate(v)) => u = v
  /\ \A u \in Updates : InUpdate(u) => sink.lock = <<u>>
  /\ \A j, k, l \in DOMAIN sink.log :
       (j < k /\ k < l /\ sink.log[j].update = sink.log[l].update) =>
         sink.log[k].update = sink.log[j].update

\* One update has written its status cell and holds the lock while another
\* thread's update waits for the lock.
C27_Witness ==
  \E u, v \in Updates :
    /\ u # v
    /\ sink.at[u] = [pc |-> "locked", written |-> 1]
    /\ sink.at[v].pc = "wait"
    /\ Len(CellsOf(sink.options)) = 3

\* The send was issued by the returned upload call: a send button was
\* clicked or the Enter key was pressed.
SendIssued ==
  /\ UploadReturned
  /\ \E k \in DOMAIN driver.log : driver.log[k] \in {"click", "enter"}

\* C31: after the send, _verify_message_sent is called once or twice; a
\* round that finds the message ends the stage with success and no error
\* scan; the error scan is made once, after two rounds that found nothing;
\* an error signal then makes the stage and step 4 fail with the detected
\* message, and no signal makes them succeed.
C31_PollThenScan ==
  SendIssued =>
    LET log == driver.log
        in == driver.call.in
        polls == Positions(log, "poll")
        scans == Positions(log, "scan")
        sends == Positions(log, "click") \cup Positions(log, "enter")
        r == driver.returned[1]
    IN  /\ Cardinality(polls) \in {1, 2}
        /\ Cardinality(scans) <= 1
        /\ \A k \in polls \cup scans : \A j \in sends : j < k
        /\ \A k \in scans : \A j \in polls : j < k
        /\ (in.verified = "first") =>
             Cardinality(polls) = 1 /\ scans = {} /\ r = <<TRUE, TxtUploadVerified>>
        /\ (in.verified = "second") =>
             Cardinality(polls) = 2 /\ scans = {} /\ r = <<TRUE, TxtUploadVerified>>
        /\ (scans # {}) <=> in.verified = "never"
        /\ (scans # {}) => Cardinality(polls) = 2
        /\ (scans # {} /\ in.error) =>
             /\ r = <<FALSE, TxtSendError>>
             /\ driver.result[1] = Res("FAILED", TxtSendError)
        /\ (scans # {} /\ ~in.error) =>
             /\ r = <<TRUE, TxtUploadNoErrors>>
             /\ driver.result[1].status = "SUCCESS"

\* An error signal was on the page, the second poll round found the
\* message, and the stage succeeded without scanning for errors.
C31_Witness ==
  /\ SendIssued
  /\ driver.call.in.error
  /\ driver.call.in.verified = "second"
  /\ Positions(driver.log, "scan") = {}
  /\ driver.returned[1] = <<TRUE, TxtUploadVerified>>

\* The entries of the send-button loop in the log of a stage call, one per
\* selector tried.
SelectorsTried(log) ==
  LET InLoop(e) == e \in {"skip", "click", "click_raises"}
  IN  SelectSeq(log, InLoop)

\* C32: the send selectors are tried in their order; a selector whose
\* element is absent, does not get visible or is disabled is skipped, a
\* visible enabled one is clicked; a click that is made ends the search, so
\* that with a working click the first visible enabled control is the one
\* clicked; the Enter key is pressed exactly when no button was clicked.
C32_SendControl ==
  (/\ UploadReturned
   /\ driver.call.in.file_input
   /\ \E k \in 1..MaxRetries : driver.call.in.set_file[k]) =>
    LET log == driver.log
        in == driver.call.in
        tried == SelectorsTried(log)
        ready == {k \in 1..NumSendSelectors : in.buttons[k] = "ready"}
        clicked == Positions(log, "click")
        entered == Positions(log, "enter") \cup Positions(log, "enter_raises")
    IN  /\ Len(tried) <= NumSendSelectors
        /\ \A k \in DOMAIN tried : (tried[k] = "skip") <=> k \notin ready
        /\ Cardinality(clicked) <= 1
        /\ \A k \in DOMAIN tried : (tried[k] = "click") => k = Len(tried)
        /\ (in.click = "ok" /\ ready # {}) =>
             /\ tried[Len(tried)] = "click"
             /\ \A k \in ready : Len(tried) <= k
        /\ (clicked = {}) => Len(tried) = NumSendSelectors
        /\ (entered # {}) <=> (clicked = {})
        /\ \A k \in entered : \A j \in DOMAIN log :
             (log[j] \in {"skip", "click_raises"}) => j < k

\* The first selector's button was disabled, the second one's was clicked,
\* and the Enter key was not pressed.
C32_Witness ==
  /\ UploadReturned
  /\ driver.call.in.buttons = <<"disabled", "ready">>
  /\ SelectorsTried(driver.log) = <<"skip", "click">>
  /\ Positions(driver.log, "enter") = {}

\* _check_channel_access has returned in the driver-stage specification.
AccessReturned ==
  driver.pc = "returned" /\ driver.call.op = "check_channel_access"

\* C35: when the restricted-channel modal is present and its confirm
\* button is clicked, the denial signals are scanned again after the click,
\* and the channel is reported accessible only if the page behind the modal
\* shows no denial signal.
C35_DismissThenRecheck ==
  (/\ AccessReturned
   /\ driver.call.in.denial = "none"
   /\ driver.call.in.modal
   /\ driver.call.in.confirm = "visible") =>
    /\ \E k \in Positions(driver.log, "dismiss") :
         \E j \in Positions(driver.log, "denial_scan") : k < j
    /\ driver.returned[1][1] => driver.call.in.behind = "none"

\* _find_user_message_with_image has returned in the driver-stage
\* specification.
FindReturned ==
  driver.pc = "returned" /\ driver.call.op = "find_user_message_with_image"

\* C33: for a chat list of count messages the search window is the
\* min(5, count) indices count-1, count-2, ..., count-min(5, count), all
\* within 0..count-1; the messages looked at are that sequence, newest
\* first, up to the first message that verifies the send (the whole of it
\* when none does); the send is verified exactly when a message of the
\* window has an author, an image and, if a username is given, the user as
\* author: an image in an older message never verifies it.
C33_RecentWindow ==
  FindReturned =>
    LET messages == driver.call.in.messages
        count    == Len(messages)
        n        == IF count < 5 THEN count ELSE 5
        window   == [k \in 1..n |-> count - k]
        found    == driver.returned[1]
        verifies(i) == MessageMatches(messages[i + 1], driver.call.in.username)
    IN  /\ \A k \in 1..Len(driver.log) :
             /\ k <= n
             /\ driver.log[k] = window[k]
             /\ driver.log[k] \in 0..(count - 1)
             /\ k < Len(driver.log) => ~verifies(driver.log[k])
        /\ found => Len(driver.log) >= 1 /\ verifies(driver.log[Len(driver.log)])
        /\ ~found => Len(driver.log) = n /\ \A k \in 1..n : ~verifies(window[k])
        /\ found <=> \E i \in (count - n)..(count - 1) : verifies(i)

\* A list of six messages whose oldest one is the user's image and whose
\* five newest ones do not verify: all five are looked at, the send is not
\* verified.
C33_Witness ==
  /\ FindReturned
  /\ Len(driver.call.in.messages) = MaxMessages
  /\ MessageMatches(driver.call.in.messages[1], driver.call.in.username)
  /\ driver.log = <<5, 4, 3, 2, 1>>
  /\ ~driver.returned[1]

\* C34: in navigate_to_channel, once a chat marker was found, a message
\* input that does not get visible or focused (a timeout or any other
\* error) does not fail the stage: navigate_to_channel returns success, the
\* pipeline goes on to step 4, and a pipeline that ends without an
\* interrupt has called upload_and_send_image.
C34_FocusFailureTolerated ==
  \A i \in Profiles :
    \A k \in 1..Len(trace[i]) :
      trace[i][k] = [stage |-> "nav_focus", ok |-> FALSE] =>
        /\ k > 1 /\ trace[i][k - 1] = [stage |-> "nav_wait", ok |-> TRUE]
        /\ k < Len(trace[i]) /\ trace[i][k + 1] = [stage |-> "nav", ok |-> TRUE]
        /\ pc[i] \in {"s4", "stop"}
        /\ (pc[i] = "stop" /\ result[i] # Propagating) =>
             /\ k + 2 = Len(trace[i])
             /\ trace[i][k + 2].stage = "upload"
             /\ result[i].status # "CHANNEL_UNAVAILABLE"

\* A profile whose message input could not be focused ended with a send
\* that succeeded.
C34_Witness ==
  \E i \in Profiles :
    /\ pc[i] = "stop"
    /\ \E k \in 1..Len(trace[i]) :
         trace[i][k] = [stage |-> "nav_focus", ok |-> FALSE]
    /\ result[i].status = "SUCCESS"

\* C36: a sink write that fails - the in-progress mark or the result of a
\* profile - never propagates: the step in which the cell stays unwritten
\* leaves the statistics counters, the recorded Outcomes, the stop requests
\* and the state of the run as they are and goes on where a successful
\* write goes on (the pipeline, and with it its stop request, after the
\* in-progress mark; the next profile or the end after the result); and a
\* finished profile whose row never changed has its Outcome and its stop
\* request.
C36_SinkFailureContained ==
  /\ [][\A i \in Profiles :
          /\ (/\ pc[i] = "inprog" /\ pc'[i] # "inprog" /\ main' = main
              /\ sheet'[i] # "In Progress") =>
               /\ pc'[i] = "image"
               /\ stats' = stats /\ outcomes' = outcomes
               /\ stops' = stops /\ run' = run
          /\ (/\ pc[i] = "h_forward" /\ pc'[i] # "h_forward" /\ SinkRow(i)
              /\ sheet'[i] # SheetStatus(future[i])) =>
               /\ pc'[i] \in {"delay", "finished"}
               /\ stats' = stats /\ outcomes' = outcomes
               /\ stops' = stops /\ run' = run]_vars
  /\ [](\A i \in Profiles :
          (pc[i] = "finished" /\ SinkRow(i) /\ sheet[i] = "Pending"
             /\ profiles[i].has_profile_id) =>
            /\ Len(outcomes[i]) = 1
            /\ stops[i] = StopRequests(0, profiles[i].profile_id)
            /\ run # "aborted" \/ \E j \in Profiles : ~profiles[j].has_profile_id)

\* Both writes of a profile's row failed; the profile has its Outcome and
\* its stop request and the run completed.
C36_Witness ==
  \E i \in Profiles :
    /\ pc[i] = "finished" /\ SinkRow(i) /\ sheet[i] = "Pending"
    /\ Len(outcomes[i]) = 1
    /\ stops[i] = 1
    /\ run = "completed"

\* C37: a profile whose image cannot be resolved gets a FAILED result with
\* no start request sent and no browser connection made, and a profile
\* whose _process_profile call returned has had its stop request issued
\* whether or not a start request was sent for it.
C37_StopWithoutStart ==
  \A i \in Profiles :
    /\ (pc[i] = "stop" /\ StartsWith(result[i].message, TxtImageNotFoundPrefix)) =>
         /\ result[i].status = "FAILED"
         /\ starts[i] = 0
         /\ opens[i] = 0 /\ closes[i] = 0 /\ ~browser[i]
    /\ pc[i] \in ReturnedPcs =>
         /\ starts[i] \in {0, 1}
         /\ stops[i] = 1

\* The positions of a profile inside _process_profile.
PipelinePcs ==
  {"image", "start", "connect", "stop"} \cup StagePcs

\* C38: in sequential mode a user interrupt that arrives while a profile is
\* inside _process_profile takes the pipeline to its outer finally and
\* leaves it from there; when it leaves, the stop request of the profile
\* has been issued; no Outcome is recorded for the profile and no counter
\* is incremented for it besides total.
C38_InterruptStopsInFlight ==
  /\ [][\A i \in Profiles :
          /\ (/\ ~UseThreading /\ pc[i] \in PipelinePcs
              /\ ~main.interrupted /\ main'.interrupted) =>
               \/ pc'[i] = "stop" /\ result'[i] = Propagating
               \/ pc'[i] = "interrupted" /\ stops'[i] = 1
          /\ (~UseThreading /\ pc[i] = "stop" /\ pc'[i] = "interrupted") =>
               /\ stops'[i] = 1
               /\ outcomes'[i] = <<>>
               /\ stats' = stats]_vars
  /\ [](\A i \in Profiles :
          (~UseThreading /\ pc[i] = "interrupted") =>
            /\ outcomes[i] = <<>>
            /\ stats.successful + stats.failed
                 = Cardinality({j \in Profiles : outcomes[j] # <<>>}))

\* The text, in lower case and without surrounding blanks, begins with '#'.
BeginsWithHash(s) ==
  LET t == Strip(Lower(s)) IN t # <<>> /\ t[1] = "#"

\* C39: verify_username reports a match whenever one of the two usernames
\* is empty after normalisation: an expected username that begins with '#'
\* matches whatever the page shows, and any expected username matches a
\* detected username that is empty or begins with '#'; step 2 then returns
\* no USERNAME_MISMATCH result.
C39_EmptyAlwaysMatches ==
  (VerifyReturned /\ driver.call.in.is_str) =>
    LET e   == driver.call.in.expected_username
        got == GetDiscordUsername(driver.call.in.page)
    IN  (\/ BeginsWithHash(e)
         \/ got[1] /\ (Strip(got[2]) = <<>> \/ BeginsWithHash(got[2]))) =>
          /\ driver.returned[1][1]
          /\ driver.result[1] = NoResult

\* The expected username "#1" was verified against a page that shows "bob".
C39_Witness ==
  /\ VerifyReturned
  /\ driver.call.in.expected_username = <<"#", "1">>
  /\ GetDiscordUsername(driver.call.in.page) = <<TRUE, TxtBob>>
  /\ driver.returned[1][1]
  /\ driver.returned[1][2] = TxtBob
  /\ driver.result[1] = NoResult

=============================================================================
